---- MODULE Spec2Model ----
(***************************************************************************)
(* The Monopoly game engine of src/game.ts (class MonopolyBenchmark) with  *)
(* the game state, agents' roll tracking, dice, turn rotation and win      *)
(* check of src/unnamed/part_001 (MonopolyAgent, MonopolyMultiAgent; the   *)
(* second, current copy of the file, lines 756..1699), the roster of       *)
(* src/unnamed/part_000 and the card catalog of src/setup/cards.ts.        *)
(*                                                                         *)
(* One game is one behaviour.  A step is one of the places where playTurn  *)
(* suspends: the start of a turn (up to the first decision request), one   *)
(* decision request (agent.takeTurn), or one dispatched command            *)
(* (executeToolCall and the loop bookkeeping that follows it).             *)
(***************************************************************************)
EXTENDS Integers, Sequences, FiniteSets, TLC

(***************************************************************************)
(* Bounds of the exploration.                                              *)
(***************************************************************************)
\* most cards drawn from one deck when the decks are exercised on their own
MaxDraws == 16
\* most commands carried by one provider response
MaxCalls == 2
\* decisions per turn after which playTurn forces the end of the turn; the
\* engine uses 20 (game.ts:151), the exploration a smaller cap
MaxInteractions == 3

\* the commands offered to the decision provider
monopolyTools ==
  {"roll_dice", "buy_property", "auction_bid", "pass_auction", "build_house",
   "build_hotel", "mortgage_property", "unmortgage_property", "sell_house",
   "sell_hotel", "pay_jail_fine", "use_jail_card", "trade_property",
   "respond_to_trade", "pay_rent", "pay_bank", "pay_all_players",
   "get_game_state", "get_property_info", "end_turn"}

\* The games explored.  Each scenario fixes what the environment hands to
\* the engine: the money of the roster passed to the constructor
\* (generatePlayers hands out 1500), the turn ceiling, the card the shuffle
\* leaves on top of either deck, the throws of the dice, and the commands and
\* propertyLocation arguments the decision provider makes use of.
AllTools ==
  {"roll_dice", "buy_property", "decline_property", "build_house",
   "build_hotel", "mortgage_property", "unmortgage_property", "sell_house",
   "sell_hotel", "pay_jail_fine", "use_jail_card", "get_property_info",
   "auction_bid", "pass_auction", "trade_property", "respond_to_trade",
   "get_game_state", "end_turn", "pay_rent", "pay_bank", "pay_all_players",
   "no_tool_call", "provider_failure"}

\* one turn, every command; a throw of doubles followed by plain throws
ScenOpening ==
  [money |-> <<1500, 1500>>, maxTurns |-> 1, chanceTop |-> 1, chestTop |-> 1,
   dice |-> <<<<3, 3>>, <<1, 2>>, <<4, 4>>>>,
   tools |-> AllTools, locs |-> {0, 6}]

\* the first player is carried to tile 39, passes Go, collects the brown
\* group and builds on it
ScenBrown ==
  [money |-> <<1500, 1500>>, maxTurns |-> 5, chanceTop |-> 1, chestTop |-> 1,
   dice |-> <<<<3, 4>>, <<1, 1>>, <<1, 1>>>>,
   tools |-> {"roll_dice", "buy_property", "build_house", "build_hotel",
              "sell_house", "sell_hotel", "end_turn"},
   locs |-> {1, 3}]

\* three doubles in a row, then a turn that starts in jail
ScenJail ==
  [money |-> <<1500, 1500>>, maxTurns |-> 3, chanceTop |-> 1, chestTop |-> 5,
   dice |-> <<<<1, 1>>, <<2, 2>>, <<3, 3>>, <<1, 2>>, <<2, 2>>>>,
   tools |-> {"roll_dice", "pay_jail_fine", "use_jail_card", "end_turn"},
   locs |-> {}]

\* the Go to Jail card in the middle of a turn
ScenArrest ==
  [money |-> <<1500, 1500>>, maxTurns |-> 1, chanceTop |-> 11, chestTop |-> 5,
   dice |-> <<<<1, 1>>, <<2, 3>>, <<1, 2>>>>,
   tools |-> {"roll_dice", "pay_jail_fine", "use_jail_card", "end_turn"},
   locs |-> {}]

\* a player short of cash draws the Doctor's Fee card and reaches a railroad
ScenPenalty ==
  [money |-> <<40, 1500>>, maxTurns |-> 3, chanceTop |-> 1, chestTop |-> 3,
   dice |-> <<<<1, 1>>, <<1, 2>>, <<2, 3>>>>,
   tools |-> {"roll_dice", "buy_property", "end_turn"}, locs |-> {}]

\* a player short of cash, owning a tile, owes rent to the other player
ScenRent ==
  [money |-> <<62, 1500>>, maxTurns |-> 3, chanceTop |-> 1, chestTop |-> 1,
   dice |-> <<<<1, 2>>, <<6, 6>>, <<4, 5>>>>,
   tools |-> {"roll_dice", "buy_property", "mortgage_property", "end_turn"},
   locs |-> {3}]

\* a player short of cash, owning a tile, is sent back to the income tax
ScenTax ==
  [money |-> <<62, 1500>>, maxTurns |-> 3, chanceTop |-> 10, chestTop |-> 1,
   dice |-> <<<<1, 2>>, <<1, 3>>>>,
   tools |-> {"roll_dice", "buy_property", "end_turn"}, locs |-> {3}]

\* the first player buys tiles 6 and 9 and wins tile 8 in the auction the
\* second player starts, builds on the light blue group with the cash that
\* is left and is then assessed for street repairs (tile 17)
ScenLightBlue ==
  [money |-> <<450, 1500>>, maxTurns |-> 3, chanceTop |-> 1, chestTop |-> 14,
   dice |-> <<<<3, 3>>, <<1, 2>>, <<3, 5>>, <<2, 6>>>>,
   tools |-> {"roll_dice", "buy_property", "decline_property", "build_house",
              "end_turn"},
   locs |-> {6, 8, 9}]

\* the first player collects the brown group and builds on tile 3, where
\* the second player then lands
ScenBrownRent ==
  [money |-> <<1500, 1500>>, maxTurns |-> 4, chanceTop |-> 1, chestTop |-> 1,
   dice |-> <<<<3, 4>>, <<1, 1>>, <<1, 1>>, <<1, 2>>>>,
   tools |-> {"roll_dice", "buy_property", "build_house", "mortgage_property",
              "end_turn"},
   locs |-> {3}]

\* the first player is sent to jail by a card, the second buys the Electric
\* Company with a throw of 12, the first leaves jail with a throw of (1,1)
ScenRelease ==
  [money |-> <<1500, 1500>>, maxTurns |-> 3, chanceTop |-> 11, chestTop |-> 1,
   dice |-> <<<<3, 4>>, <<6, 6>>, <<1, 1>>>>,
   tools |-> {"roll_dice", "buy_property", "end_turn"}, locs |-> {}]

\* one player buys and mortgages the Electric Company, the other draws the
\* "advance to the nearest utility" card on tile 7
ScenNearest ==
  [money |-> <<1500, 1500>>, maxTurns |-> 3, chanceTop |-> 7, chestTop |-> 1,
   dice |-> <<<<6, 6>>, <<3, 4>>, <<1, 2>>>>,
   tools |-> {"roll_dice", "buy_property", "mortgage_property", "end_turn"},
   locs |-> {12}]

\* a player holding exactly the auction price of Baltic Avenue lands on it
ScenAuction ==
  [money |-> <<48, 30>>, maxTurns |-> 1, chanceTop |-> 1, chestTop |-> 1,
   dice |-> <<<<1, 2>>>>,
   tools |-> {"roll_dice", "decline_property", "end_turn"}, locs |-> {}]

\* three players; the second, nearly out of cash, owes rent to the first
ScenThree ==
  [money |-> <<1500, 1, 1500>>, maxTurns |-> 5, chanceTop |-> 1, chestTop |-> 1,
   dice |-> <<<<1, 2>>, <<1, 2>>, <<2, 3>>, <<2, 3>>>>,
   tools |-> {"roll_dice", "buy_property", "end_turn"}, locs |-> {}]

\* the Go to Jail card, then three turns in jail without doubles
ScenForcedFine ==
  [money |-> <<1500, 1500>>, maxTurns |-> 7, chanceTop |-> 11, chestTop |-> 1,
   dice |-> <<<<3, 4>>, <<1, 2>>, <<1, 2>>, <<1, 2>>, <<1, 2>>, <<1, 2>>>>,
   tools |-> {"roll_dice", "end_turn"}, locs |-> {}]

\* the same with a player who cannot pay the fine
ScenForcedBroke ==
  [money |-> <<30, 1500>>, maxTurns |-> 7, chanceTop |-> 11, chestTop |-> 1,
   dice |-> <<<<3, 4>>, <<1, 2>>, <<1, 2>>, <<1, 2>>, <<1, 2>>, <<1, 2>>>>,
   tools |-> {"roll_dice", "end_turn"}, locs |-> {}]

\* a roster without any money, played up to the turn ceiling
ScenPenniless ==
  [money |-> <<0, 0>>, maxTurns |-> 2, chanceTop |-> 1, chestTop |-> 1,
   dice |-> <<<<1, 2>>>>,
   tools |-> {"roll_dice", "end_turn"}, locs |-> {}]

\* a turn late in a long game (see BuiltUp): the roster, decks and dice
\* that go with it
ScenBuiltUp ==
  [money |-> <<500, 1500>>, maxTurns |-> 151, chanceTop |-> 1, chestTop |-> 1,
   dice |-> <<<<1, 2>>>>,
   tools |-> {"build_house", "build_hotel", "sell_house", "sell_hotel",
              "end_turn"},
   locs |-> {1, 3, 16}]

Scenarios ==
  {ScenOpening, ScenBrown, ScenJail, ScenArrest, ScenPenalty, ScenRent, ScenTax,
   ScenLightBlue, ScenBrownRent, ScenRelease, ScenNearest, ScenAuction,
   ScenThree, ScenForcedFine, ScenForcedBroke, ScenPenniless}

(***************************************************************************)
(* The state of the engine (runBenchmark, playTurn, executeToolCall).      *)
(*   pc = "loop"   at the test of runBenchmark's while loop                *)
(*        "await"  playTurn is about to call agent.takeTurn                *)
(*        "calls"  playTurn is about to call executeToolCall for the next  *)
(*                 command of the response                                 *)
(*        "called" executeToolCall has returned its result                 *)
(*        "done"   runBenchmark has left its loop                          *)
(*        "hung"   nextPlayer spins                                        *)
(* hasRolledThisTurn, agentDoublesCount and turnInteractionCount are the   *)
(* fields of the current player's agent: every agent's fields are reset    *)
(* when its own turn starts and are read in that turn only.                *)
(* last = the command executeToolCall has just run and its result (fn,     *)
(* success, turnEnded), with move = <<old position, dice total, position   *)
(* after the move, money credited by the move>> for a throw that moved the *)
(* player, and unknown = the result is the "Unknown tool" error of the     *)
(* default branch.  rolls = whether each throw roll_dice has made in this  *)
(* turn was doubles, oldest first.  landed = a throw of this turn has moved *)
(* the player and the landing has been resolved.                           *)
(***************************************************************************)
VARIABLES gs, maxTurns, tools, locations, currentDiceRoll, doublesCount,
          hasRolledThisTurn, agentDoublesCount, turnInteractionCount,
          emptyResponseCount, pending, pc, last, rolls, landed

vars == <<gs, maxTurns, tools, locations, currentDiceRoll, doublesCount,
          hasRolledThisTurn, agentDoublesCount, turnInteractionCount,
          emptyResponseCount, pending, pc, last, rolls, landed>>

(***************************************************************************)
(* Program constants.                                                      *)
(***************************************************************************)
\* gameState.players.length: the roster handed to the constructor
NumPlayers == Len(gs.players)
BoardSize == 40
GoBonus == 200
JailPosition == 10
JailFine == 50
MaxJailTurns == 3
LuxuryTax == 75
IncomeTaxFlat == 200
BankHouses == 32
BankHotels == 12
RailroadBaseRent == 25
MaxEmptyResponses == 3

PlayerIds == DOMAIN gs.players
\* property.owner === null
NoOwner == 0

(***************************************************************************)
(* Board registry (./setup/board, not part of the sources at hand).  The   *)
(* color groups, railroads and utilities are the ones the agent prompt and *)
(* executeCardEffect name; the other tiles and the price table follow the  *)
(* classic board.                                                          *)
(***************************************************************************)
Railroads == <<5, 15, 25, 35>>
Utilities == <<12, 28>>

RailroadSet == {Railroads[i] : i \in 1..Len(Railroads)}
UtilitySet == {Utilities[i] : i \in 1..Len(Utilities)}

ColorGroups ==
  [ brown |-> {1, 3}, lightblue |-> {6, 8, 9}, pink |-> {11, 13, 14},
    orange |-> {16, 18, 19}, red |-> {21, 23, 24}, yellow |-> {26, 27, 29},
    green |-> {31, 32, 34}, darkblue |-> {37, 39} ]

Colors == DOMAIN ColorGroups
ColoredSet == UNION {ColorGroups[c] : c \in Colors}
Ownable == ColoredSet \cup RailroadSet \cup UtilitySet

\* tile.attributes.color (undefined, here "none", for railroads and utilities)
ColorOf(loc) ==
  IF loc \in ColoredSet THEN CHOOSE c \in Colors : loc \in ColorGroups[c]
  ELSE "none"

TileType(loc) ==
  CASE loc = 0 -> "go"
    [] loc \in ColoredSet -> "colored"
    [] loc \in RailroadSet -> "railroad"
    [] loc \in UtilitySet -> "utilities"
    [] loc \in {7, 22, 36} -> "chance"
    [] loc \in {2, 17, 33} -> "community_chest"
    [] loc = 4 -> "income_tax"
    [] loc = 38 -> "luxury_tax"
    [] loc = 30 -> "go_to_jail"
    [] loc = 20 -> "free_parking"
    [] loc = 10 -> "visiting_jail"

\* <<cost, rent_amount, rent1House, rent2Houses, rent3Houses, rent4Houses,
\*   rentHotel, houseCost>> of the colored tiles
ColoredAttrs(loc) ==
  CASE loc = 1 -> <<60, 2, 10, 30, 90, 160, 250, 50>>
    [] loc = 3 -> <<60, 4, 20, 60, 180, 320, 450, 50>>
    [] loc \in {6, 8} -> <<100, 6, 30, 90, 270, 400, 550, 50>>
    [] loc = 9 -> <<120, 8, 40, 100, 300, 450, 600, 50>>
    [] loc \in {11, 13} -> <<140, 10, 50, 150, 450, 625, 750, 100>>
    [] loc = 14 -> <<160, 12, 60, 180, 500, 700, 900, 100>>
    [] loc \in {16, 18} -> <<180, 14, 70, 200, 550, 750, 950, 100>>
    [] loc = 19 -> <<200, 16, 80, 220, 600, 800, 1000, 100>>
    [] loc \in {21, 23} -> <<220, 18, 90, 250, 700, 875, 1050, 150>>
    [] loc = 24 -> <<240, 20, 100, 300, 750, 925, 1100, 150>>
    [] loc \in {26, 27} -> <<260, 22, 110, 330, 800, 975, 1150, 150>>
    [] loc = 29 -> <<280, 24, 120, 360, 850, 1025, 1200, 150>>
    [] loc \in {31, 32} -> <<300, 26, 130, 390, 900, 1100, 1275, 200>>
    [] loc = 34 -> <<320, 28, 150, 450, 1000, 1200, 1400, 200>>
    [] loc = 37 -> <<350, 35, 175, 500, 1100, 1300, 1500, 200>>
    [] loc = 39 -> <<400, 50, 200, 600, 1400, 1700, 2000, 200>>

\* tile.attributes.cost || 0
Cost(loc) ==
  CASE loc \in ColoredSet -> ColoredAttrs(loc)[1]
    [] loc \in RailroadSet -> 200
    [] loc \in UtilitySet -> 150
    [] OTHER -> 0

\* tile.attributes.rent_amount || 0
RentAmount(loc) ==
  CASE loc \in ColoredSet -> ColoredAttrs(loc)[2]
    [] loc \in RailroadSet -> 25
    [] OTHER -> 0

\* rent1House .. rent4Houses
HouseRentTier(loc, n) == IF loc \in ColoredSet THEN ColoredAttrs(loc)[2 + n] ELSE 0

RentHotel(loc) == IF loc \in ColoredSet THEN ColoredAttrs(loc)[7] ELSE 0

(***************************************************************************)
(* Card catalog (src/setup/cards.ts).  attrs carries exactly the           *)
(* attributes the catalog entry defines; an attribute that is not in       *)
(* DOMAIN attrs is undefined.                                              *)
(***************************************************************************)
chance ==
  << [type |-> "movement", attrs |-> [location |-> 39]],
     [type |-> "movement", attrs |-> [location |-> 0, amount |-> 200]],
     [type |-> "movement", attrs |-> [location |-> 24, collectOnPassGo |-> TRUE]],
     [type |-> "movement", attrs |-> [location |-> 16, collectOnPassGo |-> TRUE]],
     [type |-> "movement", attrs |-> [moveToNearest |-> "railroad", rentMultiplier |-> 2]],
     [type |-> "movement", attrs |-> [moveToNearest |-> "railroad", rentMultiplier |-> 2]],
     [type |-> "movement", attrs |-> [moveToNearest |-> "utility", diceMultiplier |-> 10]],
     [type |-> "financial", attrs |-> [amount |-> 50]],
     [type |-> "special", attrs |-> [jailFreeCard |-> TRUE]],
     [type |-> "movement_penalty", attrs |-> [moveSpaces |-> -3]],
     [type |-> "movement_jail", attrs |-> [location |-> 10]],
     [type |-> "financial_penalty", attrs |-> [perHouse |-> 25, perHotel |-> 100]],
     [type |-> "financial_penalty", attrs |-> [amount |-> -15]],
     [type |-> "movement", attrs |-> [location |-> 5, collectOnPassGo |-> TRUE]],
     [type |-> "financial_penalty", attrs |-> [payToPlayers |-> TRUE, perPlayer |-> 50]],
     [type |-> "financial", attrs |-> [amount |-> 150]] >>

communityChest ==
  << [type |-> "movement", attrs |-> [location |-> 0, amount |-> 200]],
     [type |-> "financial", attrs |-> [amount |-> 200]],
     [type |-> "financial_penalty", attrs |-> [amount |-> -50]],
     [type |-> "financial", attrs |-> [amount |-> 50]],
     [type |-> "special", attrs |-> [jailFreeCard |-> TRUE]],
     [type |-> "movement_jail", attrs |-> [location |-> 10]],
     [type |-> "financial", attrs |-> [amount |-> 100]],
     [type |-> "financial", attrs |-> [amount |-> 20]],
     [type |-> "financial", attrs |-> [collectFromPlayers |-> TRUE, perPlayer |-> 10]],
     [type |-> "financial", attrs |-> [amount |-> 100]],
     [type |-> "financial_penalty", attrs |-> [amount |-> -100]],
     [type |-> "financial_penalty", attrs |-> [amount |-> -50]],
     [type |-> "financial", attrs |-> [amount |-> 25]],
     [type |-> "financial_penalty", attrs |-> [perHouse |-> 40, perHotel |-> 115]],
     [type |-> "financial", attrs |-> [amount |-> 10]],
     [type |-> "financial", attrs |-> [amount |-> 100]] >>

\* attrs.x !== undefined
Has(attrs, x) == x \in DOMAIN attrs

Min(a, b) == IF a <= b THEN a ELSE b


RECURSIVE SumF(_, _)
SumF(f, S) ==
  IF S = {} THEN 0
  ELSE LET x == CHOOSE y \in S : TRUE IN f[x] + SumF(f, S \ {x})

RECURSIVE Pow2(_)
Pow2(n) == IF n <= 0 THEN 1 ELSE 2 * Pow2(n - 1)

\* gameState.properties lists the ownable tiles in board order
OwnableSeq ==
  <<1, 3, 5, 6, 8, 9, 11, 12, 13, 14, 15, 16, 18, 19, 21, 23, 24, 25, 26, 27,
    28, 29, 31, 32, 34, 35, 37, 39>>

(***************************************************************************)
(* Game state g (interface GameState):                                     *)
(*   players[i]  = [money, position, properties, jailFreeCards, inJail,    *)
(*                  jailTurns, bankrupt]        (player id = roster index) *)
(*   properties[loc] = [owner, houses, hotels, mortgaged]                  *)
(*   chanceCards, communityChestCards = sequences of catalog indices       *)
(*   houses, hotels = bank inventory; currentPlayerIndex (1-based); turn;  *)
(*   gameOver; winner (0 = null)                                           *)
(* and records of what has been done:                                      *)
(*   dealt = either deck as the shuffle at creation left it                *)
(*   draws = how many cards have been drawn from either deck               *)
(*   bankruptcies = the BANKRUPTCY entries of multiAgent.logs, each with   *)
(*                  the debtor, the creditor and gameStateBefore           *)
(*   logs = the BUY_PROPERTY, BUILD_HOUSE and MORTGAGE_PROPERTY entries    *)
(*          the current step has pushed on multiAgent.logs                 *)
(*   charges = the unavoidable charges the current step has raised, each   *)
(*             [player, kind, amount, cash, payee] with cash the payer's   *)
(*             money when the charge was compared with it                  *)
(***************************************************************************)
Snapshot(g) ==
  [players |-> g.players, properties |-> g.properties,
   houses |-> g.houses, hotels |-> g.hotels]

\* multiAgent.log(action, details, player) followed at once by
\* logWithAfter(idx): both snapshots are taken of the state g of the call
Log(g, action, p) ==
  [g EXCEPT !.logs = Append(@,
     [action |-> action, player |-> p,
      gameStateBefore |-> Snapshot(g), gameStateAfter |-> Snapshot(g)])]

Charge(g, p, kind, amount, payee) ==
  [g EXCEPT !.charges = Append(@,
     [player |-> p, kind |-> kind, amount |-> amount,
      cash |-> g.players[p].money, payee |-> payee])]

OwnedBy(g, pid) == {loc \in Ownable : g.properties[loc].owner = pid}

AddMoney(g, p, amt) == [g EXCEPT !.players[p].money = @ + amt]

hasMonopoly(g, pid, loc) ==
  LET color == ColorOf(loc) IN
  IF color = "none" THEN FALSE
  ELSE \A l \in ColorGroups[color] : g.properties[l].owner = pid

\* the caller's properties of the tile's color
OwnGroup(g, pid, loc) ==
  {l \in ColorGroups[ColorOf(loc)] : g.properties[l].owner = pid}

canBuildEvenly(g, pid, loc) ==
  IF ColorOf(loc) = "none" THEN FALSE
  ELSE IF loc \notin OwnGroup(g, pid, loc) THEN FALSE
  ELSE \A l \in OwnGroup(g, pid, loc) :
         g.properties[loc].houses <= g.properties[l].houses

canSellEvenly(g, pid, loc) ==
  IF ColorOf(loc) = "none" THEN FALSE
  ELSE IF loc \notin OwnGroup(g, pid, loc) THEN FALSE
  ELSE \A l \in OwnGroup(g, pid, loc) :
         g.properties[loc].houses >= g.properties[l].houses

colorGroupHasBuildings(g, pid, loc) ==
  IF ColorOf(loc) = "none" THEN FALSE
  ELSE \E l \in OwnGroup(g, pid, loc) :
         g.properties[l].houses > 0 \/ g.properties[l].hotels > 0

calculateHouseRent(g, loc) ==
  IF g.properties[loc].houses \in 1..4
  THEN HouseRentTier(loc, g.properties[loc].houses)
  ELSE RentAmount(loc)

calculateHotelRent(g, loc) == RentHotel(loc)

\* tile.attributes.houseCost ?? 0
getHouseCost(loc) == IF loc \in ColoredSet THEN ColoredAttrs(loc)[8] ELSE 0

countRailroadsOwned(g, pid) == Cardinality(OwnedBy(g, pid) \cap RailroadSet)

countUtilitiesOwned(g, pid) == Cardinality(OwnedBy(g, pid) \cap UtilitySet)

calculateNetWorth(g, p) ==
  LET worthOf ==
        [loc \in Ownable |->
           Cost(loc)
           + g.properties[loc].houses * getHouseCost(loc)
           + g.properties[loc].hotels * getHouseCost(loc) * 5
           - (IF g.properties[loc].mortgaged THEN Cost(loc) \div 2 ELSE 0)]
  IN g.players[p].money + SumF(worthOf, OwnedBy(g, p))

sendToJail(g, p) ==
  [g EXCEPT !.players[p].position = JailPosition,
            !.players[p].inJail = TRUE,
            !.players[p].jailTurns = 0]

\* handleBankruptcy gone wrong: the debtor's own property list is kept
handleBankruptcyKeepsList(g, p, creditor) ==
  LET pl == g.players[p]
      owned == OwnedBy(g, p)
      ownedSeq == SelectSeq(OwnableSeq, LAMBDA loc : loc \in owned)
      cleared == [pl EXCEPT !.bankrupt = TRUE, !.money = 0, !.jailFreeCards = 0]
      entry == [player |-> p, creditor |-> creditor, before |-> Snapshot(g)]
  IN IF creditor # NoOwner
     THEN [g EXCEPT
             !.bankruptcies = Append(@, entry),
             !.players = [i \in PlayerIds |->
                IF i = p THEN cleared
                ELSE IF i = creditor
                THEN [g.players[i] EXCEPT
                        !.money = @ + pl.money,
                        !.properties = @ \o ownedSeq,
                        !.jailFreeCards = @ + pl.jailFreeCards]
                ELSE g.players[i]],
             !.properties = [loc \in Ownable |->
                IF loc \in owned
                THEN [g.properties[loc] EXCEPT !.owner = creditor]
                ELSE g.properties[loc]]]
     ELSE [g EXCEPT
             !.bankruptcies = Append(@, entry),
             !.players[p] = cleared,
             !.properties = [loc \in Ownable |->
                IF loc \in owned
                THEN [owner |-> NoOwner, houses |-> 0, hotels |-> 0,
                      mortgaged |-> FALSE]
                ELSE g.properties[loc]]]

\* handleBankruptcy gone wrong: the tiles handed to a creditor are redeemed
handleBankruptcyRedeems(g, p, creditor) ==
  LET pl == g.players[p]
      owned == OwnedBy(g, p)
      ownedSeq == SelectSeq(OwnableSeq, LAMBDA loc : loc \in owned)
      cleared == [pl EXCEPT !.bankrupt = TRUE, !.money = 0,
                            !.properties = <<>>, !.jailFreeCards = 0]
      entry == [player |-> p, creditor |-> creditor, before |-> Snapshot(g)]
  IN IF creditor # NoOwner
     THEN [g EXCEPT
             !.bankruptcies = Append(@, entry),
             !.players = [i \in PlayerIds |->
                IF i = p THEN cleared
                ELSE IF i = creditor
                THEN [g.players[i] EXCEPT
                        !.money = @ + pl.money,
                        !.properties = @ \o ownedSeq,
                        !.jailFreeCards = @ + pl.jailFreeCards]
                ELSE g.players[i]],
             !.properties = [loc \in Ownable |->
                IF loc \in owned
                THEN [g.properties[loc] EXCEPT !.owner = creditor,
                                               !.mortgaged = FALSE]
                ELSE g.properties[loc]]]
     ELSE [g EXCEPT
             !.bankruptcies = Append(@, entry),
             !.players[p] = cleared,
             !.properties = [loc \in Ownable |->
                IF loc \in owned
                THEN [owner |-> NoOwner, houses |-> 0, hotels |-> 0,
                      mortgaged |-> FALSE]
                ELSE g.properties[loc]]]

\* handleBankruptcy gone wrong: the buildings cleared for the bank go back
\* to its inventory
handleBankruptcyRestocks(g, p, creditor) ==
  LET pl == g.players[p]
      owned == OwnedBy(g, p)
      ownedSeq == SelectSeq(OwnableSeq, LAMBDA loc : loc \in owned)
      cleared == [pl EXCEPT !.bankrupt = TRUE, !.money = 0,
                            !.properties = <<>>, !.jailFreeCards = 0]
      entry == [player |-> p, creditor |-> creditor, before |-> Snapshot(g)]
  IN IF creditor # NoOwner
     THEN [g EXCEPT
             !.bankruptcies = Append(@, entry),
             !.players = [i \in PlayerIds |->
                IF i = p THEN cleared
                ELSE IF i = creditor
                THEN [g.players[i] EXCEPT
                        !.money = @ + pl.money,
                        !.properties = @ \o ownedSeq,
                        !.jailFreeCards = @ + pl.jailFreeCards]
                ELSE g.players[i]],
             !.properties = [loc \in Ownable |->
                IF loc \in owned
                THEN [g.properties[loc] EXCEPT !.owner = creditor]
                ELSE g.properties[loc]]]
     ELSE [g EXCEPT
             !.bankruptcies = Append(@, entry),
             !.players[p] = cleared,
             !.houses = @ + SumF([loc \in Ownable |-> g.properties[loc].houses],
                                 owned),
             !.hotels = @ + SumF([loc \in Ownable |-> g.properties[loc].hotels],
                                 owned),
             !.properties = [loc \in Ownable |->
                IF loc \in owned
                THEN [owner |-> NoOwner, houses |-> 0, hotels |-> 0,
                      mortgaged |-> FALSE]
                ELSE g.properties[loc]]]

\* creditor = NoOwner stands for the bank (null)
handleBankruptcy(g, p, creditor) ==
  LET pl == g.players[p]
      owned == OwnedBy(g, p)
      ownedSeq == SelectSeq(OwnableSeq, LAMBDA loc : loc \in owned)
      cleared == [pl EXCEPT !.bankrupt = TRUE, !.money = 0,
                            !.properties = <<>>, !.jailFreeCards = 0]
      entry == [player |-> p, creditor |-> creditor, before |-> Snapshot(g)]
  IN IF creditor # NoOwner
     THEN [g EXCEPT
             !.bankruptcies = Append(@, entry),
             !.players = [i \in PlayerIds |->
                IF i = p THEN cleared
                ELSE IF i = creditor
                THEN [g.players[i] EXCEPT
                        !.money = @ + pl.money,
                        !.properties = @ \o ownedSeq,
                        !.jailFreeCards = @ + pl.jailFreeCards]
                ELSE g.players[i]],
             !.properties = [loc \in Ownable |->
                IF loc \in owned
                THEN [g.properties[loc] EXCEPT !.owner = creditor]
                ELSE g.properties[loc]]]
     ELSE [g EXCEPT
             !.bankruptcies = Append(@, entry),
             !.players[p] = cleared,
             !.properties = [loc \in Ownable |->
                IF loc \in owned
                THEN [owner |-> NoOwner, houses |-> 0, hotels |-> 0,
                      mortgaged |-> FALSE]
                ELSE g.properties[loc]]]

\* PayOrBankrupt gone wrong: the payee is not credited
PayOrBankruptUncredited(h, p, amount, payee) ==
  IF h.players[p].money >= amount
  THEN AddMoney(h, p, -amount)
  ELSE handleBankruptcy(h, p, payee)

\* if (player.money >= amount) the amount goes to the payee (NoOwner: the
\* bank), else handleBankruptcy(player, payee); h is the state in which the
\* amount falls due
PayOrBankrupt(h, p, amount, payee) ==
  IF h.players[p].money >= amount
  THEN IF payee = NoOwner THEN AddMoney(h, p, -amount)
       ELSE AddMoney(AddMoney(h, p, -amount), payee, amount)
  ELSE handleBankruptcy(h, p, payee)

\* the rent computation gone wrong: buildings and monopolies are ignored
rentDueBase(g, loc, dr) ==
  IF TileType(loc) = "utilities" /\ dr # 0
  THEN dr * (IF countUtilitiesOwned(g, g.properties[loc].owner) = 1
             THEN 4 ELSE 10)
  ELSE IF TileType(loc) = "railroad"
  THEN RailroadBaseRent
         * Pow2(countRailroadsOwned(g, g.properties[loc].owner) - 1)
  ELSE RentAmount(loc)

\* the rent payRent computes; dr = currentDiceRoll.total, 0 when
\* currentDiceRoll is null
rentDue(g, loc, dr) ==
  LET prop == g.properties[loc]
      owner == prop.owner
      base == RentAmount(loc)
  IN IF TileType(loc) = "utilities" /\ dr # 0
     THEN dr * (IF countUtilitiesOwned(g, owner) = 1 THEN 4 ELSE 10)
     ELSE IF TileType(loc) = "railroad"
     THEN RailroadBaseRent * Pow2(countRailroadsOwned(g, owner) - 1)
     ELSE IF prop.hotels > 0 THEN calculateHotelRent(g, loc)
     ELSE IF prop.houses > 0 THEN calculateHouseRent(g, loc)
     ELSE IF hasMonopoly(g, owner, loc) THEN base * 2
     ELSE base

payRent(g, p, loc, dr) ==
  LET owner == g.properties[loc].owner IN
  IF g.properties[loc].mortgaged THEN g
  ELSE IF owner \notin PlayerIds \/ g.players[owner].bankrupt THEN g
  ELSE PayOrBankrupt(Charge(g, p, "rent", rentDue(g, loc, dr), owner),
                     p, rentDue(g, loc, dr), owner)

handlePropertyLanding(g, p, loc, dr) ==
  IF loc \notin Ownable THEN g
  ELSE IF g.properties[loc].owner = NoOwner THEN g
  ELSE IF g.properties[loc].owner = p THEN g
  ELSE payRent(g, p, loc, dr)

\* Math.min(200, Math.floor(worth * 0.1))
incomeTaxDue(g, p) == Min(IncomeTaxFlat, calculateNetWorth(g, p) \div 10)

handleIncomeTax(g, p) ==
  PayOrBankrupt(Charge(g, p, "income_tax", incomeTaxDue(g, p), NoOwner),
                p, incomeTaxDue(g, p), NoOwner)

handleLuxuryTax(g, p) ==
  PayOrBankrupt(Charge(g, p, "luxury_tax", LuxuryTax, NoOwner),
                p, LuxuryTax, NoOwner)

\* railroads.find(r => r > currentPos) ?? railroads[0]
NearestOf(seq, pos) ==
  IF \E i \in 1..Len(seq) : seq[i] > pos
  THEN seq[CHOOSE i \in 1..Len(seq) :
             seq[i] > pos /\ \A j \in 1..(i - 1) : seq[j] <= pos]
  ELSE seq[1]


(***************************************************************************)
(* Dice.  g.rng is the sequence of throws <<die1, die2>> that Math.random  *)
(* is going to yield, fixed when the game is set up; rollDice takes the    *)
(* next one.  g.starved records that a throw was asked for after the last  *)
(* one of the sequence: the run is not followed beyond that point.         *)
(***************************************************************************)
rollDice(g) ==
  IF g.rng = <<>>
  THEN [g |-> [g EXCEPT !.starved = TRUE], total |-> 2, doubles |-> TRUE]
  ELSE [g |-> [g EXCEPT !.rng = Tail(@)],
        total |-> Head(g.rng)[1] + Head(g.rng)[2],
        doubles |-> Head(g.rng)[1] = Head(g.rng)[2]]

(***************************************************************************)
(* Landing resolution and the card effect executor.  dr is                 *)
(* currentDiceRoll.total (0 for null); a dice-multiplier card throws the   *)
(* dice itself (multiAgent.rollDice() inside executeCardEffect).           *)
(***************************************************************************)
RECURSIVE handleLanding(_, _, _)
RECURSIVE executeCardEffect(_, _, _, _)

\* the rent a rentMultiplier card asks for on tile pos
cardRentDue(g, pos, attrs) ==
  (IF TileType(pos) = "railroad"
   THEN RailroadBaseRent * Pow2(countRailroadsOwned(g, g.properties[pos].owner) - 1)
   ELSE RentAmount(pos)) * attrs.rentMultiplier

\* the dice-multiplier settlement: roll is the throw made for it
cardDiceSettle(roll, p, owner, attrs) ==
  PayOrBankrupt(
    Charge(roll.g, p, "card_dice", roll.total * attrs.diceMultiplier, owner),
    p, roll.total * attrs.diceMultiplier, owner)

\* if (attrs.rentMultiplier): the multiplied rent goes to the owner
cardRentSettle(g, p, pos, attrs) ==
  IF Has(attrs, "rentMultiplier") /\ attrs.rentMultiplier # 0
  THEN PayOrBankrupt(
         Charge(g, p, "card_rent", cardRentDue(g, pos, attrs),
                g.properties[pos].owner),
         p, cardRentDue(g, pos, attrs), g.properties[pos].owner)
  ELSE g

\* if (attrs.diceMultiplier): a throw of the dice times the multiplier
cardDiceStage(g, p, pos, attrs) ==
  IF Has(attrs, "diceMultiplier") /\ attrs.diceMultiplier # 0
  THEN cardDiceSettle(rollDice(g), p, g.properties[pos].owner, attrs)
  ELSE g

\* the settlement with the owner of the tile an "advance to nearest" card
\* leads to
cardSettle(g, p, pos, attrs) ==
  IF g.players[g.properties[pos].owner].bankrupt THEN g
  ELSE cardDiceStage(cardRentSettle(g, p, pos, attrs), p, pos, attrs)

\* the player on the nearest tile, with the Go bonus when the move wrapped
advanceTo(g, p, nearestPos) ==
  [g EXCEPT !.players[p].position = nearestPos,
            !.players[p].money =
               IF nearestPos < g.players[p].position THEN @ + GoBonus ELSE @]

\* the "Advance to nearest" branch of executeCardEffect
moveToNearest(g, p, attrs, dr) ==
  LET nearestPos == IF attrs.moveToNearest = "railroad"
                    THEN NearestOf(Railroads, g.players[p].position)
                    ELSE IF attrs.moveToNearest = "utility"
                    THEN NearestOf(Utilities, g.players[p].position)
                    ELSE -1
  IN IF nearestPos = -1 THEN g
     ELSE IF g.properties[nearestPos].owner # NoOwner
             /\ g.properties[nearestPos].owner # p
     THEN cardSettle(advanceTo(g, p, nearestPos), p, nearestPos, attrs)
     ELSE handleLanding(advanceTo(g, p, nearestPos), p, dr)

\* if (attrs.location !== undefined): the move, the Go bonus of a
\* collectOnPassGo card, the landing
cardLocation(g, p, attrs, dr) ==
  IF ~Has(attrs, "location") THEN g
  ELSE handleLanding(
         [g EXCEPT !.players[p].position = attrs.location,
                   !.players[p].money =
                      IF Has(attrs, "collectOnPassGo") /\ attrs.collectOnPassGo
                         /\ attrs.location < g.players[p].position
                      THEN @ + GoBonus ELSE @],
         p, dr)

\* if (attrs.amount !== undefined) player.money += attrs.amount
cardAmount(g, p, attrs) ==
  IF ~Has(attrs, "amount") THEN g
  ELSE IF attrs.amount < 0
  THEN AddMoney(Charge(g, p, "card_amount", -attrs.amount, NoOwner),
                p, attrs.amount)
  ELSE AddMoney(g, p, attrs.amount)

cardJailFreeCard(g, p, attrs) ==
  IF Has(attrs, "jailFreeCard") /\ attrs.jailFreeCard
  THEN [g EXCEPT !.players[p].jailFreeCards = @ + 1] ELSE g

cardMovementJail(g, p, card) ==
  IF card.type = "movement_jail" THEN sendToJail(g, p) ELSE g

\* the players a per-player card pays or charges
otherPlayers(g, p) == {q \in PlayerIds : ~g.players[q].bankrupt /\ q # p}

perPlayerOf(attrs) == IF Has(attrs, "perPlayer") THEN attrs.perPlayer ELSE 0

cardCollectFromPlayers(g, p, attrs) ==
  LET amt == [q \in PlayerIds |-> Min(g.players[q].money, perPlayerOf(attrs))] IN
  IF Has(attrs, "collectFromPlayers") /\ attrs.collectFromPlayers
     /\ perPlayerOf(attrs) # 0
  THEN [g EXCEPT !.players = [q \in PlayerIds |->
          IF q = p
          THEN [g.players[q] EXCEPT !.money = @ + SumF(amt, otherPlayers(g, p))]
          ELSE IF q \in otherPlayers(g, p)
          THEN [g.players[q] EXCEPT !.money = @ - amt[q]]
          ELSE g.players[q]]]
  ELSE g

\* h is the state in which the total falls due
payEachPlayer(h, p, perPlayer) ==
  IF h.players[p].money >= perPlayer * Cardinality(otherPlayers(h, p))
  THEN [h EXCEPT !.players = [q \in PlayerIds |->
          IF q = p
          THEN [h.players[q] EXCEPT
                  !.money = @ - perPlayer * Cardinality(otherPlayers(h, p))]
          ELSE IF q \in otherPlayers(h, p)
          THEN [h.players[q] EXCEPT !.money = @ + perPlayer]
          ELSE h.players[q]]]
  ELSE handleBankruptcy(h, p, NoOwner)

cardPayToPlayers(g, p, attrs) ==
  IF Has(attrs, "payToPlayers") /\ attrs.payToPlayers /\ perPlayerOf(attrs) # 0
  THEN payEachPlayer(
         Charge(g, p, "pay_players",
                perPlayerOf(attrs) * Cardinality(otherPlayers(g, p)), NoOwner),
         p, perPlayerOf(attrs))
  ELSE g

\* the total of a per-building repair card
repairsDue(g, p, perHouse, perHotel) ==
  SumF([loc \in Ownable |->
          g.properties[loc].houses * perHouse
          + g.properties[loc].hotels * perHotel],
       OwnedBy(g, p))

cardRepairs(g, p, attrs) ==
  LET perHouse == IF Has(attrs, "perHouse") THEN attrs.perHouse ELSE 0
      perHotel == IF Has(attrs, "perHotel") THEN attrs.perHotel ELSE 0
  IN IF perHouse # 0 \/ perHotel # 0
     THEN PayOrBankrupt(
            Charge(g, p, "repairs", repairsDue(g, p, perHouse, perHotel), NoOwner),
            p, repairsDue(g, p, perHouse, perHotel), NoOwner)
     ELSE g

\* the effects of executeCardEffect after the two early-return branches, in
\* the order of the code
cardTail(g, p, card, dr) ==
  cardRepairs(
    cardPayToPlayers(
      cardCollectFromPlayers(
        cardMovementJail(
          cardJailFreeCard(
            cardAmount(cardLocation(g, p, card.attrs, dr), p, card.attrs),
            p, card.attrs),
          p, card),
        p, card.attrs),
      p, card.attrs),
    p, card.attrs)

executeCardEffect(g, p, card, dr) ==
  IF Has(card.attrs, "moveSpaces")
  THEN handleLanding(
         [g EXCEPT !.players[p].position =
                      (@ + card.attrs.moveSpaces + 40) % BoardSize],
         p, dr)
  ELSE IF Has(card.attrs, "moveToNearest")
  THEN moveToNearest(g, p, card.attrs, dr)
  ELSE cardTail(g, p, card, dr)

\* drawChanceCard gone wrong: the drawn card is not put back
drawChanceCardDiscards(g, p, dr) ==
  LET card == Head(g.chanceCards) IN
  executeCardEffect(
    [g EXCEPT !.chanceCards = Tail(g.chanceCards),
              !.draws.chance = @ + 1],
    p, chance[card], dr)

\* the front card goes to the back, then its effect is executed
drawChanceCard(g, p, dr) ==
  LET card == Head(g.chanceCards) IN
  executeCardEffect(
    [g EXCEPT !.chanceCards = Append(Tail(g.chanceCards), card),
              !.draws.chance = @ + 1],
    p, chance[card], dr)

drawCommunityChestCard(g, p, dr) ==
  LET card == Head(g.communityChestCards) IN
  executeCardEffect(
    [g EXCEPT !.communityChestCards = Append(Tail(g.communityChestCards), card),
              !.draws.chest = @ + 1],
    p, communityChest[card], dr)

handleLanding(g, p, dr) ==
  LET pos == g.players[p].position
      type == TileType(pos)
  IN CASE type \in {"colored", "railroad", "utilities"} ->
            handlePropertyLanding(g, p, pos, dr)
       [] type = "chance" -> drawChanceCard(g, p, dr)
       [] type = "community_chest" -> drawCommunityChestCard(g, p, dr)
       [] type = "income_tax" -> handleIncomeTax(g, p)
       [] type = "luxury_tax" -> handleLuxuryTax(g, p)
       [] type = "go_to_jail" -> sendToJail(g, p)
       [] OTHER -> g


(***************************************************************************)
(* Transaction resolver: the command handlers.  Each yields                *)
(* [g, ok, ended]: the game state after it, result.success and             *)
(* result.turnEnded.                                                       *)
(***************************************************************************)
Result(g, ok, ended) == [g |-> g, ok |-> ok, ended |-> ended]

Fail(g) == Result(g, FALSE, FALSE)

Done(g) == Result(g, TRUE, FALSE)

\* startAuction gone wrong: the tile is not pushed on the winner's list
startAuctionNoPush(g, loc) ==
  LET maxBid == (Cost(loc) * 4) \div 5
      able == {q \in PlayerIds :
                 ~g.players[q].bankrupt /\ g.players[q].money > maxBid}
      winner == CHOOSE q \in able : \A r \in able : q <= r
  IN IF able # {} /\ maxBid > 0
     THEN [g EXCEPT !.players[winner].money = @ - maxBid,
                    !.properties[loc].owner = winner]
     ELSE g

\* every candidate bids floor(0.8 * cost); the first one able to pay more wins
startAuction(g, loc) ==
  LET maxBid == (Cost(loc) * 4) \div 5
      able == {q \in PlayerIds :
                 ~g.players[q].bankrupt /\ g.players[q].money > maxBid}
      winner == CHOOSE q \in able : \A r \in able : q <= r
  IN IF able # {} /\ maxBid > 0
     THEN [g EXCEPT !.players[winner].money = @ - maxBid,
                    !.players[winner].properties = Append(@, loc),
                    !.properties[loc].owner = winner]
     ELSE g

\* handleBuyProperty gone wrong: the price is not compared with the cash
handleBuyPropertyOnCredit(g, p, confirm) ==
  LET loc == g.players[p].position
      cost == Cost(loc)
  IN IF loc \notin Ownable THEN Fail(g)
     ELSE IF g.properties[loc].owner # NoOwner THEN Fail(g)
     ELSE IF ~confirm THEN Done(startAuction(g, loc))
     ELSE Done([g EXCEPT !.players[p].money = @ - cost,
                         !.players[p].properties = Append(@, loc),
                         !.properties[loc].owner = p])

handleBuyProperty(g, p, confirm) ==
  LET loc == g.players[p].position
      cost == Cost(loc)
  IN IF loc \notin Ownable THEN Fail(g)
     ELSE IF g.properties[loc].owner # NoOwner THEN Fail(g)
     ELSE IF ~confirm THEN Done(startAuction(g, loc))
     ELSE IF g.players[p].money < cost THEN Fail(g)
     ELSE Done(Log([g EXCEPT !.players[p].money = @ - cost,
                             !.players[p].properties = Append(@, loc),
                             !.properties[loc].owner = p],
                   "BUY_PROPERTY", p))

\* handleBuildHouse gone wrong: the house leaves the bank before the
\* monopoly is checked
handleBuildHouseEager(g, p, loc) ==
  LET cost == getHouseCost(loc)
      taken == [g EXCEPT !.houses = @ - 1]
  IN IF loc \notin Ownable THEN Fail(g)
     ELSE IF g.properties[loc].owner # p THEN Fail(g)
     ELSE IF ~hasMonopoly(g, p, loc) THEN Fail(taken)
     ELSE IF g.properties[loc].hotels > 0 THEN Fail(g)
     ELSE IF g.properties[loc].houses >= 4 THEN Fail(g)
     ELSE IF ~canBuildEvenly(g, p, loc) THEN Fail(g)
     ELSE IF g.houses <= 0 THEN Fail(g)
     ELSE IF g.players[p].money < cost THEN Fail(g)
     ELSE Done([taken EXCEPT !.players[p].money = @ - cost,
                             !.properties[loc].houses = @ + 1])

\* handleBuildHouse gone wrong: houses need not be added low to high
handleBuildHouseUneven(g, p, loc) ==
  LET cost == getHouseCost(loc) IN
  IF loc \notin Ownable THEN Fail(g)
  ELSE IF g.properties[loc].owner # p THEN Fail(g)
  ELSE IF ~hasMonopoly(g, p, loc) THEN Fail(g)
  ELSE IF g.properties[loc].hotels > 0 THEN Fail(g)
  ELSE IF g.properties[loc].houses >= 4 THEN Fail(g)
  ELSE IF g.houses <= 0 THEN Fail(g)
  ELSE IF g.players[p].money < cost THEN Fail(g)
  ELSE Done([g EXCEPT !.players[p].money = @ - cost,
                      !.properties[loc].houses = @ + 1,
                      !.houses = @ - 1])

handleBuildHouse(g, p, loc) ==
  LET cost == getHouseCost(loc) IN
  IF loc \notin Ownable THEN Fail(g)
  ELSE IF g.properties[loc].owner # p THEN Fail(g)
  ELSE IF ~hasMonopoly(g, p, loc) THEN Fail(g)
  ELSE IF g.properties[loc].hotels > 0 THEN Fail(g)
  ELSE IF g.properties[loc].houses >= 4 THEN Fail(g)
  ELSE IF ~canBuildEvenly(g, p, loc) THEN Fail(g)
  ELSE IF g.houses <= 0 THEN Fail(g)
  ELSE IF g.players[p].money < cost THEN Fail(g)
  ELSE Done(Log([g EXCEPT !.players[p].money = @ - cost,
                          !.properties[loc].houses = @ + 1,
                          !.houses = @ - 1],
                "BUILD_HOUSE", p))

\* handleBuildHotel gone wrong: the four houses stay on the tile
handleBuildHotelKeepsHouses(g, p, loc) ==
  LET cost == getHouseCost(loc) IN
  IF loc \notin Ownable THEN Fail(g)
  ELSE IF g.properties[loc].owner # p THEN Fail(g)
  ELSE IF g.properties[loc].houses # 4 THEN Fail(g)
  ELSE IF g.hotels <= 0 THEN Fail(g)
  ELSE IF g.players[p].money < cost THEN Fail(g)
  ELSE Done([g EXCEPT !.players[p].money = @ - cost,
                      !.properties[loc].hotels = 1,
                      !.hotels = @ - 1])

handleBuildHotel(g, p, loc) ==
  LET cost == getHouseCost(loc) IN
  IF loc \notin Ownable THEN Fail(g)
  ELSE IF g.properties[loc].owner # p THEN Fail(g)
  ELSE IF g.properties[loc].houses # 4 THEN Fail(g)
  ELSE IF g.hotels <= 0 THEN Fail(g)
  ELSE IF g.players[p].money < cost THEN Fail(g)
  ELSE Done([g EXCEPT !.players[p].money = @ - cost,
                      !.properties[loc].houses = 0,
                      !.properties[loc].hotels = 1,
                      !.houses = @ + 4,
                      !.hotels = @ - 1])

\* handleMortgageProperty gone wrong: buildings in the group are ignored
handleMortgagePropertyBuilt(g, p, loc) ==
  IF loc \notin Ownable THEN Fail(g)
  ELSE IF g.properties[loc].owner # p THEN Fail(g)
  ELSE IF g.properties[loc].mortgaged THEN Fail(g)
  ELSE Done([g EXCEPT !.players[p].money = @ + (Cost(loc) \div 2),
                      !.properties[loc].mortgaged = TRUE])

handleMortgageProperty(g, p, loc) ==
  IF loc \notin Ownable THEN Fail(g)
  ELSE IF g.properties[loc].owner # p THEN Fail(g)
  ELSE IF g.properties[loc].mortgaged THEN Fail(g)
  ELSE IF colorGroupHasBuildings(g, p, loc) THEN Fail(g)
  ELSE Done(Log([g EXCEPT !.players[p].money = @ + (Cost(loc) \div 2),
                          !.properties[loc].mortgaged = TRUE],
                "MORTGAGE_PROPERTY", p))

handleUnmortgageProperty(g, p, loc) ==
  LET mort == Cost(loc) \div 2
      cost == (mort * 11) \div 10
  IN IF loc \notin Ownable THEN Fail(g)
     ELSE IF g.properties[loc].owner # p THEN Fail(g)
     ELSE IF ~g.properties[loc].mortgaged THEN Fail(g)
     ELSE IF g.players[p].money < cost THEN Fail(g)
     ELSE Done([g EXCEPT !.players[p].money = @ - cost,
                         !.properties[loc].mortgaged = FALSE])

handleSellHouse(g, p, loc) ==
  LET value == getHouseCost(loc) \div 2 IN
  IF loc \notin Ownable THEN Fail(g)
  ELSE IF g.properties[loc].owner # p THEN Fail(g)
  ELSE IF g.properties[loc].houses = 0 THEN Fail(g)
  ELSE IF ~canSellEvenly(g, p, loc) THEN Fail(g)
  ELSE Done([g EXCEPT !.players[p].money = @ + value,
                      !.properties[loc].houses = @ - 1,
                      !.houses = @ + 1])

handleSellHotel(g, p, loc) ==
  LET value == (getHouseCost(loc) * 5) \div 2 IN
  IF loc \notin Ownable THEN Fail(g)
  ELSE IF g.properties[loc].owner # p THEN Fail(g)
  ELSE IF g.properties[loc].hotels = 0 THEN Fail(g)
  ELSE Done([g EXCEPT !.players[p].money = @ + value,
                      !.properties[loc].hotels = 0,
                      !.properties[loc].houses = 4,
                      !.hotels = @ + 1,
                      !.houses = @ - 4])

handlePayJailFine(g, p) ==
  IF ~g.players[p].inJail THEN Fail(g)
  ELSE IF g.players[p].money < JailFine THEN Fail(g)
  ELSE Done([g EXCEPT !.players[p].money = @ - JailFine,
                      !.players[p].inJail = FALSE,
                      !.players[p].jailTurns = 0])

handleUseJailCard(g, p) ==
  IF ~g.players[p].inJail THEN Fail(g)
  ELSE IF g.players[p].jailFreeCards = 0 THEN Fail(g)
  ELSE Done([g EXCEPT !.players[p].jailFreeCards = @ - 1,
                      !.players[p].inJail = FALSE,
                      !.players[p].jailTurns = 0])

\* handleGetPropertyInfo gone wrong: the lookup hands the tile back to the bank
handleGetPropertyInfoReturns(g, loc) ==
  IF loc \notin Ownable THEN Fail(g)
  ELSE Done([g EXCEPT !.properties[loc].owner = NoOwner])

handleGetPropertyInfo(g, loc) == IF loc \notin Ownable THEN Fail(g) ELSE Done(g)


(***************************************************************************)
(* Movement and jail.                                                      *)
(***************************************************************************)
\* the movement gone wrong: Go pays nothing
movePlayerNoBonus(g, p, total) ==
  [g EXCEPT !.players[p].position = (@ + total) % BoardSize]

\* the movement of handleRollDice: new position and the Go bonus
movePlayer(g, p, total) ==
  LET oldPos == g.players[p].position
      newPos == (oldPos + total) % BoardSize
      passedGo == newPos < oldPos \/ oldPos + total >= BoardSize
  IN [g EXCEPT !.players[p].position = newPos,
               !.players[p].money = IF passedGo THEN @ + GoBonus ELSE @]

\* agent.canRollDice()
canRollDice(hasRolled, agentDoubles) ==
  ~hasRolled \/ (agentDoubles > 0 /\ agentDoubles < 3)

\* agent.markRollResult: the agent's doubles count after a throw
markRollResult(agentDoubles, doubles) ==
  IF doubles THEN agentDoubles + 1 ELSE agentDoubles

\* handleRollDice gone wrong: the third doubles moves the player as well
rollAcceptedAlwaysMoves(p, roll, count) ==
  Done(handleLanding(movePlayer(roll.g, p, roll.total), p, roll.total))

\* handleRollDice once the roll is accepted; count is this.doublesCount
\* after the roll has been counted
rollAccepted(p, roll, count) ==
  IF roll.doubles /\ count = 3
  THEN Result(sendToJail(roll.g, p), TRUE, TRUE)
  ELSE Done(handleLanding(movePlayer(roll.g, p, roll.total), p, roll.total))

\* the dice throw of a jailed turn: doubles release and move the player
jailThrow(roll, p, dr) ==
  IF roll.doubles
  THEN handleLanding(
         [roll.g EXCEPT !.players[p].inJail = FALSE,
                        !.players[p].jailTurns = 0,
                        !.players[p].position = (@ + roll.total) % BoardSize],
         p, dr)
  ELSE roll.g

\* the forced fine of the third jailed turn; h is the state in which the
\* fine falls due
jailForcedFine(h, p) ==
  IF h.players[p].money >= JailFine
  THEN [h EXCEPT !.players[p].money = @ - JailFine,
                 !.players[p].inJail = FALSE,
                 !.players[p].jailTurns = 0]
  ELSE handleBankruptcy(h, p, NoOwner)

\* g1 is the state after player.jailTurns++
jailTurn(g1, p, dr) ==
  IF g1.players[p].jailTurns >= MaxJailTurns
  THEN jailForcedFine(Charge(g1, p, "jail_fine", JailFine, NoOwner), p)
  ELSE jailThrow(rollDice(g1), p, dr)

handleJail(g, p, dr) ==
  jailTurn([g EXCEPT !.players[p].jailTurns = @ + 1], p, dr)

(***************************************************************************)
(* Turn rotation and the win evaluator.                                    *)
(***************************************************************************)
\* the do-while of nextPlayer never ends when nobody is left to stop at
nextPlayerDiverges(g) ==
  ~g.gameOver /\ \A q \in PlayerIds : g.players[q].bankrupt

\* nextPlayer gone wrong: the index moves on by one and stops
nextPlayerNoSkip(g) ==
  [g EXCEPT !.currentPlayerIndex = (@ % NumPlayers) + 1]

RECURSIVE nextPlayer(_)
nextPlayer(g) ==
  LET h == [g EXCEPT !.currentPlayerIndex = (@ % NumPlayers) + 1] IN
  IF h.players[h.currentPlayerIndex].bankrupt /\ ~h.gameOver
  THEN nextPlayer(h) ELSE h

\* checkWinCondition gone wrong: the game is closed without a winner
checkWinConditionNoWinner(g) ==
  LET active == {q \in PlayerIds : ~g.players[q].bankrupt} IN
  IF Cardinality(active) = 1 THEN [g EXCEPT !.gameOver = TRUE] ELSE g

checkWinCondition(g) ==
  LET active == {q \in PlayerIds : ~g.players[q].bankrupt} IN
  IF Cardinality(active) = 1
  THEN [g EXCEPT !.gameOver = TRUE, !.winner = CHOOSE q \in active : TRUE]
  ELSE g

\* the scan of determineWinnerByNetWorth over players i..NumPlayers
RECURSIVE bestByNetWorth(_, _, _, _)
bestByNetWorth(g, i, best, bestWorth) ==
  IF i > NumPlayers THEN best
  ELSE IF ~g.players[i].bankrupt /\ calculateNetWorth(g, i) > bestWorth
  THEN bestByNetWorth(g, i + 1, i, calculateNetWorth(g, i))
  ELSE bestByNetWorth(g, i + 1, best, bestWorth)

determineWinnerByNetWorth(g) ==
  LET best == bestByNetWorth(g, 1, 0, 0) IN
  IF best # 0 THEN [g EXCEPT !.gameOver = TRUE, !.winner = best] ELSE g


(***************************************************************************)
(* The turn engine: the steps of runBenchmark, playTurn, executeToolCall.  *)
(***************************************************************************)
\* args.propertyLocation when the arguments carry none: parseToolArguments
\* returns {} for an empty or unparseable argument string
Undefined == -1

NoCommand ==
  [fn |-> "none", confirm |-> "none", loc |-> Undefined,
   ok |-> TRUE, ended |-> FALSE, move |-> <<>>, unknown |-> FALSE,
   forced |-> FALSE]

Command(fn, res) == [NoCommand EXCEPT !.fn = fn, !.ok = res.ok, !.ended = res.ended]

\* the deck 1..n cut so that card k is on top
Cut(n, k) == [i \in 1..n |-> ((i + k - 2) % n) + 1]

\* generatePlayers, with the money the roster hands to the constructor
generatePlayers(money) ==
  [i \in DOMAIN money |->
     [money |-> money[i], position |-> 0, properties |-> <<>>,
      jailFreeCards |-> 0, inJail |-> FALSE, jailTurns |-> 0,
      bankrupt |-> FALSE]]

\* the state after construction for the roster, ceiling, decks and dice of
\* scenario sc
Opening(sc) ==
          [players |-> generatePlayers(sc.money),
           properties |-> [loc \in Ownable |->
              [owner |-> NoOwner, houses |-> 0, hotels |-> 0,
               mortgaged |-> FALSE]],
           chanceCards |-> Cut(Len(chance), sc.chanceTop),
           communityChestCards |-> Cut(Len(communityChest), sc.chestTop),
           houses |-> BankHouses, hotels |-> BankHotels,
           currentPlayerIndex |-> 1, turn |-> 0,
           gameOver |-> FALSE, winner |-> 0,
           bankruptcies |-> <<>>, charges |-> <<>>,
           dealt |-> [chance |-> Cut(Len(chance), sc.chanceTop),
                      chest |-> Cut(Len(communityChest), sc.chestTop)],
           draws |-> [chance |-> 0, chest |-> 0], logs |-> <<>>,
           rng |-> sc.dice, starved |-> FALSE]

\* the fields of MonopolyBenchmark and of the agents after construction
Engine(sc) ==
  /\ maxTurns = sc.maxTurns
  /\ tools = sc.tools
  /\ locations = sc.locs
  /\ currentDiceRoll = 0
  /\ doublesCount = 0
  /\ hasRolledThisTurn = FALSE
  /\ agentDoublesCount = 0
  /\ turnInteractionCount = 0
  /\ emptyResponseCount = 0
  /\ pending = 0
  /\ pc = "loop"
  /\ last = NoCommand
  /\ rolls = <<>>
  /\ landed = FALSE

Start(sc) == gs = Opening(sc) /\ Engine(sc)

\* a position of a long game, before the 151st turn: the first player has
\* bought the brown, light blue, pink and orange groups, has built four
\* houses on every brown, light blue and pink tile and one on tile 16, and
\* has then turned the houses of tile 1 into a hotel, so that 29 of the
\* bank's houses and one of its hotels stand on the board
BuiltUpTiles == <<1, 3, 6, 8, 9, 11, 13, 14, 16, 18, 19>>

BuiltUpTurn == 150

BuiltUp ==
  LET tiles == {BuiltUpTiles[i] : i \in DOMAIN BuiltUpTiles}
      start == [Opening(ScenBuiltUp) EXCEPT
                  !.players[1].properties = BuiltUpTiles,
                  !.houses = BankHouses - 29, !.hotels = BankHotels - 1,
                  !.turn = BuiltUpTurn]
  IN [start EXCEPT !.properties = [loc \in Ownable |->
        IF loc = 1
        THEN [owner |-> 1, houses |-> 0, hotels |-> 1, mortgaged |-> FALSE]
        ELSE IF loc = 16
        THEN [owner |-> 1, houses |-> 1, hotels |-> 0, mortgaged |-> FALSE]
        ELSE IF loc \in {18, 19}
        THEN [owner |-> 1, houses |-> 0, hotels |-> 0, mortgaged |-> FALSE]
        ELSE IF loc \in tiles
        THEN [owner |-> 1, houses |-> 4, hotels |-> 0, mortgaged |-> FALSE]
        ELSE start.properties[loc]]]

StartBuiltUp == gs = BuiltUp /\ Engine(ScenBuiltUp)

Init == (\E sc \in Scenarios : Start(sc)) \/ StartBuiltUp

\* the player whose turn it is, and the state a step starts from
Cur == gs.currentPlayerIndex

Fresh == [gs EXCEPT !.charges = <<>>, !.logs = <<>>]

\* playTurn's exit: nextPlayer(), then runBenchmark's checkWinCondition()
TurnOver(g) ==
  /\ pending' = 0
  /\ IF nextPlayerDiverges(g)
     THEN gs' = g /\ pc' = "hung"
     ELSE gs' = checkWinCondition(nextPlayer(g)) /\ pc' = "loop"

\* the loop test of playTurn after a response has been worked off
NextDecision(g, turnEnded) ==
  IF turnEnded \/ turnInteractionCount > MaxInteractions
     \/ g.players[g.currentPlayerIndex].bankrupt
  THEN TurnOver(g)
  ELSE gs' = g /\ pc' = "await" /\ pending' = 0

TurnReset ==
  /\ doublesCount' = 0
  /\ hasRolledThisTurn' = FALSE
  /\ agentDoublesCount' = 0
  /\ turnInteractionCount' = 0
  /\ emptyResponseCount' = 0
  /\ last' = NoCommand
  /\ rolls' = <<>>

\* StartTurn gone wrong: the turn counter is left as it is
StartTurnNoCount ==
  /\ pc = "loop" /\ ~gs.gameOver /\ gs.turn < maxTurns
  /\ ~gs.players[Cur].inJail
  /\ TurnReset
  /\ gs' = Fresh
  /\ pc' = "await"
  /\ landed' = FALSE
  /\ UNCHANGED <<maxTurns, tools, locations, currentDiceRoll, pending>>

\* playTurn up to its first decision request, player not in jail
StartTurn ==
  /\ pc = "loop" /\ ~gs.gameOver /\ gs.turn < maxTurns
  /\ ~gs.players[Cur].inJail
  /\ TurnReset
  /\ gs' = [Fresh EXCEPT !.turn = @ + 1]
  /\ pc' = "await"
  /\ landed' = FALSE
  /\ UNCHANGED <<maxTurns, tools, locations, currentDiceRoll, pending>>

\* playTurn up to its first decision request, player in jail: handleJail
StartTurnInJail ==
  /\ pc = "loop" /\ ~gs.gameOver /\ gs.turn < maxTurns
  /\ gs.players[Cur].inJail
  /\ TurnReset
  /\ LET g1 == handleJail([Fresh EXCEPT !.turn = @ + 1], Cur, currentDiceRoll) IN
       /\ ~g1.starved
       /\ IF g1.players[Cur].inJail \/ g1.players[Cur].bankrupt
          THEN TurnOver(g1)
          ELSE gs' = g1 /\ pc' = "await" /\ pending' = 0
  /\ landed' = (gs.players[Cur].jailTurns + 1 < MaxJailTurns
                 /\ gs.rng # <<>> /\ rollDice(Fresh).doubles)
  /\ UNCHANGED <<maxTurns, tools, locations, currentDiceRoll>>

\* runBenchmark leaves its loop; at the ceiling the net worth decides
Finish ==
  /\ pc = "loop" /\ (gs.gameOver \/ gs.turn >= maxTurns)
  /\ gs' = IF gs.turn >= maxTurns THEN determineWinnerByNetWorth(Fresh) ELSE Fresh
  /\ pc' = "done"
  /\ last' = NoCommand
  /\ UNCHANGED <<maxTurns, tools, locations, currentDiceRoll, doublesCount,
                 hasRolledThisTurn, agentDoublesCount, turnInteractionCount,
                 emptyResponseCount, pending, rolls, landed>>

\* the test gone wrong: one empty response more is let through
failedToUseToolsLate(count) == count > MaxEmptyResponses

\* playTurn's test after a response without a command
failedToUseTools(count) == count >= MaxEmptyResponses

\* agent.takeTurn answers with n commands (n = 0: no tool call)
TakeTurn ==
  /\ pc = "await"
  /\ turnInteractionCount' = turnInteractionCount + 1
  /\ last' = NoCommand
  /\ \E n \in (IF "no_tool_call" \in tools THEN {0} ELSE {}) \cup 1..MaxCalls :
       IF n = 0
       THEN /\ emptyResponseCount' = emptyResponseCount + 1
            /\ IF failedToUseTools(emptyResponseCount')
                  \/ turnInteractionCount' > MaxInteractions
               THEN TurnOver(Fresh)
               ELSE gs' = Fresh /\ pc' = "await" /\ pending' = 0
       ELSE /\ emptyResponseCount' = 0
            /\ gs' = Fresh /\ pc' = "calls" /\ pending' = n
  /\ UNCHANGED <<maxTurns, tools, locations, currentDiceRoll, doublesCount,
                 hasRolledThisTurn, agentDoublesCount, rolls, landed>>

\* agent.takeTurn when the provider has failed on every attempt: the
\* fallback interaction carries the single command end_turn
ProviderFails ==
  /\ pc = "await"
  /\ "provider_failure" \in tools
  /\ turnInteractionCount' = turnInteractionCount + 1
  /\ emptyResponseCount' = 0
  /\ last' = [NoCommand EXCEPT !.forced = TRUE]
  /\ gs' = Fresh /\ pc' = "calls" /\ pending' = 1
  /\ UNCHANGED <<maxTurns, tools, locations, currentDiceRoll, doublesCount,
                 hasRolledThisTurn, agentDoublesCount, rolls, landed>>

\* AfterCall gone wrong: the break test does not look at player.bankrupt
AfterCallGoesOn ==
  /\ pc = "called"
  /\ IF last.fn = "end_turn" \/ last.ended
     THEN NextDecision(Fresh, TRUE)
     ELSE IF pending > 1
     THEN gs' = Fresh /\ pc' = "calls" /\ pending' = pending - 1
     ELSE NextDecision(Fresh, FALSE)
  /\ last' = NoCommand
  /\ UNCHANGED <<maxTurns, tools, locations, currentDiceRoll, doublesCount,
                 hasRolledThisTurn, agentDoublesCount, turnInteractionCount,
                 emptyResponseCount, rolls, landed>>

\* playTurn once executeToolCall has returned: the break test of the for
\* loop, then the next command of the response or the loop test
AfterCall ==
  /\ pc = "called"
  /\ IF last.fn = "end_turn" \/ last.ended \/ gs.players[Cur].bankrupt
     THEN NextDecision(Fresh, TRUE)
     ELSE IF pending > 1
     THEN gs' = Fresh /\ pc' = "calls" /\ pending' = pending - 1
     ELSE NextDecision(Fresh, FALSE)
  /\ last' = NoCommand
  /\ UNCHANGED <<maxTurns, tools, locations, currentDiceRoll, doublesCount,
                 hasRolledThisTurn, agentDoublesCount, turnInteractionCount,
                 emptyResponseCount, rolls, landed>>

\* what a command other than roll_dice leaves alone
Frame ==
  UNCHANGED <<maxTurns, tools, locations, currentDiceRoll, doublesCount,
              hasRolledThisTurn, agentDoublesCount, turnInteractionCount,
              emptyResponseCount, pending, rolls, landed>>

\* executeToolCall has run command cmd of the current player with result res
Call(cmd, res) ==
  /\ pc = "calls" /\ ~last.forced
  /\ last' = cmd
  /\ gs' = res.g
  /\ pc' = "called"
  /\ Frame

\* executeToolCall for a command without arguments
Dispatch(fn, res) == fn \in tools /\ Call(Command(fn, res), res)

\* executeToolCall for a command that reads args.propertyLocation
DispatchAt(fn, loc, res) ==
  fn \in tools /\ Call([Command(fn, res) EXCEPT !.loc = loc], res)

\* the values of args.propertyLocation the decision provider sends
Arguments == locations \cup {Undefined}

\* handleRollDice
RollDice ==
  /\ pc = "calls" /\ ~last.forced
  /\ "roll_dice" \in tools
  /\ pc' = "called"
  /\ IF ~canRollDice(hasRolledThisTurn, agentDoublesCount)
     THEN /\ last' = Command("roll_dice", Fail(Fresh))
          /\ gs' = Fresh
          /\ UNCHANGED <<currentDiceRoll, doublesCount, hasRolledThisTurn,
                         agentDoublesCount, rolls, landed>>
     ELSE LET roll == rollDice(Fresh)
              count == IF roll.doubles THEN doublesCount + 1 ELSE doublesCount
              moved == movePlayer(roll.g, Cur, roll.total)
              res == rollAccepted(Cur, roll, count)
          IN /\ ~res.g.starved
             /\ currentDiceRoll' = roll.total
             /\ hasRolledThisTurn' = TRUE
             /\ agentDoublesCount' = markRollResult(agentDoublesCount, roll.doubles)
             /\ doublesCount' = count
             /\ rolls' = Append(rolls, roll.doubles)
             /\ landed' = (landed \/ ~res.ended)
             /\ last' = [Command("roll_dice", res) EXCEPT
                         !.move = IF res.ended THEN <<>>
                                  ELSE <<gs.players[Cur].position, roll.total,
                                         moved.players[Cur].position,
                                         moved.players[Cur].money
                                           - gs.players[Cur].money>>]
             /\ gs' = res.g
  /\ UNCHANGED <<maxTurns, tools, locations, turnInteractionCount,
                 emptyResponseCount, pending>>

\* buy_property with args.confirm true, false or undefined (no arguments
\* parsed): handleBuyProperty tests !confirm, so undefined declines.  A
\* scenario lists "decline_property" when its provider sends buy_property
\* without a true confirm.
BuyProperty ==
  \E confirm \in {"true", "false", "undefined"} :
    /\ (IF confirm = "true" THEN "buy_property" ELSE "decline_property") \in tools
    /\ Call([Command("buy_property",
                      handleBuyProperty(Fresh, Cur, confirm = "true"))
               EXCEPT !.confirm = confirm],
            handleBuyProperty(Fresh, Cur, confirm = "true"))

BuildHouse ==
  \E loc \in Arguments : DispatchAt("build_house", loc, handleBuildHouse(Fresh, Cur, loc))

BuildHotel ==
  \E loc \in Arguments : DispatchAt("build_hotel", loc, handleBuildHotel(Fresh, Cur, loc))

MortgageProperty ==
  \E loc \in Arguments :
    DispatchAt("mortgage_property", loc, handleMortgageProperty(Fresh, Cur, loc))

UnmortgageProperty ==
  \E loc \in Arguments :
    DispatchAt("unmortgage_property", loc,
               handleUnmortgageProperty(Fresh, Cur, loc))

SellHouse ==
  \E loc \in Arguments : DispatchAt("sell_house", loc, handleSellHouse(Fresh, Cur, loc))

SellHotel ==
  \E loc \in Arguments : DispatchAt("sell_hotel", loc, handleSellHotel(Fresh, Cur, loc))

PayJailFine == Dispatch("pay_jail_fine", handlePayJailFine(Fresh, Cur))

UseJailCard == Dispatch("use_jail_card", handleUseJailCard(Fresh, Cur))

GetPropertyInfo ==
  \E loc \in Arguments :
    DispatchAt("get_property_info", loc, handleGetPropertyInfo(Fresh, loc))

\* handleAuctionBid, handlePassAuction, handleTradeProposal,
\* handleTradeResponse, handleGetGameState: success, nothing else
InertCommands ==
  {"auction_bid", "pass_auction", "trade_property", "respond_to_trade",
   "get_game_state"}

Inert == \E fn \in InertCommands : Dispatch(fn, Done(Fresh))

EndTurn == Dispatch("end_turn", Result(Fresh, TRUE, TRUE))

\* executeToolCall for the end_turn of the fallback interaction
ForcedEndTurn ==
  /\ pc = "calls" /\ last.forced
  /\ last' = [Command("end_turn", Result(Fresh, TRUE, TRUE)) EXCEPT !.forced = TRUE]
  /\ gs' = Fresh
  /\ pc' = "called"
  /\ Frame

\* the default branch of executeToolCall
UnknownCommands == {"pay_rent", "pay_bank", "pay_all_players"}

UnknownTool ==
  \E fn \in UnknownCommands :
    /\ fn \in tools
    /\ Call([Command(fn, Fail(Fresh)) EXCEPT !.unknown = TRUE], Fail(Fresh))

Next ==
  \/ StartTurn
  \/ StartTurnInJail
  \/ Finish
  \/ TakeTurn
  \/ AfterCall
  \/ RollDice
  \/ BuyProperty
  \/ BuildHouse
  \/ BuildHotel
  \/ MortgageProperty
  \/ UnmortgageProperty
  \/ SellHouse
  \/ SellHotel
  \/ PayJailFine
  \/ UseJailCard
  \/ GetPropertyInfo
  \/ Inert
  \/ EndTurn
  \/ UnknownTool
  \/ ProviderFails
  \/ ForcedEndTurn

Spec == Init /\ [][Next]_vars

(***************************************************************************)
(* The games whose end is checked: every command and every way a turn can  *)
(* close (end_turn, the cap on decisions, three empty responses, a failed  *)
(* provider, jail, bankruptcy), up to the ceiling or the last bankruptcy.  *)
(***************************************************************************)
\* the opening turn with every command on offer for tile 6
ScenAllCommands ==
  [money |-> <<1500, 1500>>, maxTurns |-> 1, chanceTop |-> 1, chestTop |-> 1,
   dice |-> <<<<3, 3>>, <<1, 2>>>>,
   tools |-> AllTools, locs |-> {6}]

LiveScenarios ==
  {ScenAllCommands, ScenJail, ScenArrest, ScenForcedBroke, ScenPenniless}

LiveInit == \E sc \in LiveScenarios : Start(sc)

\* runBenchmark and playTurn are one sequential async routine: every step
\* of it runs as soon as the await before it has settled, and takeTurn
\* settles after at most MAX_RETRIES attempts
LiveSpec == LiveInit /\ [][Next]_vars /\ WF_vars(Next)

(***************************************************************************)
(* The decks on their own: drawChanceCard and drawCommunityChestCard       *)
(* applied over and over to the state after construction.                  *)
(***************************************************************************)
DeckScenarios == {ScenOpening, ScenArrest}

DeckInit == \E sc \in DeckScenarios : Start(sc)

DeckFrame ==
  UNCHANGED <<maxTurns, tools, locations, currentDiceRoll, doublesCount,
              hasRolledThisTurn, agentDoublesCount, turnInteractionCount,
              emptyResponseCount, pending, pc, last, rolls, landed>>

DrawChance ==
  /\ gs.draws.chance < MaxDraws
  /\ ~drawChanceCard(Fresh, Cur, currentDiceRoll).starved
  /\ gs' = drawChanceCard(Fresh, Cur, currentDiceRoll)
  /\ DeckFrame

DrawCommunityChest ==
  /\ gs.draws.chest < MaxDraws
  /\ ~drawCommunityChestCard(Fresh, Cur, currentDiceRoll).starved
  /\ gs' = drawCommunityChestCard(Fresh, Cur, currentDiceRoll)
  /\ DeckFrame

DeckNext ==
  \/ DrawChance
  \/ DrawCommunityChest

DeckSpec == DeckInit /\ [][DeckNext]_vars

(***************************************************************************)
(* Properties.                                                             *)
(***************************************************************************)
\* what a command may not touch when it fails
View(g) ==
  [players |-> g.players, properties |-> g.properties,
   houses |-> g.houses, hotels |-> g.hotels,
   chanceCards |-> g.chanceCards,
   communityChestCards |-> g.communityChestCards,
   currentPlayerIndex |-> g.currentPlayerIndex]

ResolverCommands ==
  {"roll_dice", "buy_property", "build_house", "build_hotel", "sell_house",
   "sell_hotel", "mortgage_property", "unmortgage_property", "pay_jail_fine",
   "use_jail_card"}

\* C1: a resolver command that returns success = false leaves the players,
\* the property table, the bank inventory, both decks and the current-player
\* index as they were and does not end the turn: unless the decision cap is
\* reached, playTurn goes on with the next command or the next decision of
\* the same player
FailedCommandChangesNothing ==
  [][ /\ (pc' = "called" /\ last'.fn \in ResolverCommands /\ ~last'.ok)
           => (View(gs') = View(gs) /\ ~last'.ended)
      /\ (/\ pc = "called" /\ last.fn \in ResolverCommands /\ ~last.ok
          /\ (pending > 1 \/ turnInteractionCount <= MaxInteractions))
           => (/\ pc' \in {"calls", "await"}
               /\ gs'.currentPlayerIndex = gs.currentPlayerIndex
               /\ gs'.turn = gs.turn) ]_vars

\* a build_house of the owner of a tile has just been refused
FailedCommandSeen ==
  /\ pc = "called" /\ last.fn = "build_house" /\ ~last.ok
  /\ \E loc \in Ownable : gs.properties[loc].owner = Cur

\* C2: once a command or a landing resolution has completed, no player's
\* money is negative
MoneyNeverNegative == \A p \in PlayerIds : gs.players[p].money >= 0

RentKinds == {"rent", "card_rent", "card_dice"}

\* C3: every unavoidable charge larger than the payer's cash ends in the
\* bankruptcy of the payer, with the owner as creditor for rent and the
\* rent/dice-multiplier card settlements and the bank for every other charge
UnpayableChargeBankrupts ==
  \A i \in DOMAIN gs.charges :
    LET c == gs.charges[i] IN
    c.amount > c.cash =>
      /\ gs.players[c.player].bankrupt
      /\ \E j \in DOMAIN gs.bankruptcies :
           /\ gs.bankruptcies[j].player = c.player
           /\ gs.bankruptcies[j].creditor =
                IF c.kind \in RentKinds THEN c.payee ELSE NoOwner

\* building level of a tile: the houses, a hotel one above four houses
Level(loc) ==
  IF gs.properties[loc].hotels > 0 THEN 5 ELSE gs.properties[loc].houses

\* C4: two tiles of one color group owned by the same player never differ
\* by more than one building level
EvenBuilding ==
  \A c \in Colors : \A a, b \in ColorGroups[c] :
    (gs.properties[a].owner = gs.properties[b].owner
       /\ gs.properties[a].owner # NoOwner)
      => Level(a) - Level(b) <= 1

\* C5: on every property houses is in 0..4 and hotels in 0..1, a hotel
\* leaves no houses, and buildings stand only on a tile whose owner owns the
\* whole color group
BuildingCounts ==
  \A loc \in Ownable :
    LET prop == gs.properties[loc] IN
    /\ prop.houses \in 0..4
    /\ prop.hotels \in 0..1
    /\ prop.hotels = 1 => prop.houses = 0
    /\ (prop.houses > 0 \/ prop.hotels > 0) =>
         /\ prop.owner \in PlayerIds
         /\ loc \in ColoredSet
         /\ \A l \in ColorGroups[ColorOf(loc)] :
              gs.properties[l].owner = prop.owner

\* a hotel next to houses of the same group
HotelSeen ==
  \E a, b \in ColoredSet :
    /\ ColorOf(a) = ColorOf(b)
    /\ gs.properties[a].hotels = 1 /\ gs.properties[b].houses > 0

DoublesThrown == Cardinality({i \in DOMAIN rolls : rolls[i]})

\* the condition under which a throw is legal
RollLegal == rolls = <<>> \/ (rolls[Len(rolls)] /\ DoublesThrown < 3)

\* C6: roll_dice is accepted only when the player has not thrown in this
\* turn yet, or the throw just before was doubles and fewer than three
\* doubles have been thrown in this turn; otherwise it fails and the player
\* stays where they are
RollOnlyWhenLegal ==
  [][ (pc = "calls" /\ pc' = "called" /\ last'.fn = "roll_dice" /\ ~RollLegal)
        => (/\ ~last'.ok
            /\ gs'.players[Cur].position = gs.players[Cur].position) ]_vars

\* the throw of this step is the third doubles in a row of the turn
ThirdDoublesInARow ==
  /\ Len(rolls') = Len(rolls) + 1
  /\ Len(rolls') >= 3
  /\ \A i \in (Len(rolls') - 2)..Len(rolls') : rolls'[i]

MoveWrapsAndPaysGo ==
  (pc = "called" /\ last.move # <<>>) =>
    LET old == last.move[1]
        t == last.move[2]
    IN /\ t \in 2..12
       /\ last.move[3] = (old + t) % 40
       /\ last.move[4] = IF old + t >= 40 THEN 200 ELSE 0

\* a move that passed Go
MovePastGoSeen ==
  pc = "called" /\ last.move # <<>> /\ last.move[1] + last.move[2] >= 40

\* a bankrupt player holds nothing
BankruptHoldsNothing ==
  \A p \in PlayerIds :
    gs.players[p].bankrupt =>
      /\ gs.players[p].money = 0
      /\ gs.players[p].properties = <<>>
      /\ gs.players[p].jailFreeCards = 0
      /\ \A loc \in Ownable : gs.properties[loc].owner # p

\* C9: from the bankruptcy settlement on the player is bankrupt, has money
\* 0, an empty property list, no jail tokens and owns no property, and the
\* bankrupt flag is never reset
BankruptForGood ==
  /\ []BankruptHoldsNothing
  /\ [][\A p \in PlayerIds :
          gs.players[p].bankrupt => gs'.players[p].bankrupt]_vars

\* the game has gone on after a bankruptcy
BankruptLaterSeen ==
  pc = "done" /\ \E p \in PlayerIds : gs.players[p].bankrupt

\* C10: in a bankruptcy with a player as creditor the creditor gains
\* exactly the debtor's cash and jail tokens, and every property of the
\* debtor goes to the creditor with its houses, hotels and mortgage flag
CreditorInherits ==
  [][ Len(gs'.bankruptcies) > Len(gs.bankruptcies) =>
        LET e == gs'.bankruptcies[Len(gs'.bankruptcies)]
            b == e.before
            d == e.player
            c == e.creditor
        IN c # NoOwner =>
             /\ gs'.players[c].money = b.players[c].money + b.players[d].money
             /\ gs'.players[c].jailFreeCards =
                  b.players[c].jailFreeCards + b.players[d].jailFreeCards
             /\ \A loc \in Ownable :
                  gs'.properties[loc] =
                    IF b.properties[loc].owner = d
                    THEN [b.properties[loc] EXCEPT !.owner = c]
                    ELSE b.properties[loc] ]_vars

\* a debtor with cash and a mortgaged tile has gone bankrupt to a player
CreditorInheritsSeen ==
  /\ pc = "called" /\ gs.bankruptcies # <<>>
  /\ LET e == gs.bankruptcies[Len(gs.bankruptcies)] IN
       /\ e.creditor # NoOwner
       /\ e.before.players[e.player].money > 0
       /\ \E loc \in Ownable :
            /\ e.before.properties[loc].owner = e.player
            /\ e.before.properties[loc].mortgaged
            /\ gs.properties[loc].owner = e.creditor

\* C11: in a bankruptcy with the bank as creditor every property of the
\* debtor ends unowned, unmortgaged and without buildings, every other
\* property and every other player is left as it was, and the bank's house
\* and hotel counters keep their values
BankTakesNothingBack ==
  [][ Len(gs'.bankruptcies) > Len(gs.bankruptcies) =>
        LET e == gs'.bankruptcies[Len(gs'.bankruptcies)]
            b == e.before
            d == e.player
        IN e.creditor = NoOwner =>
             /\ \A loc \in Ownable :
                  gs'.properties[loc] =
                    IF b.properties[loc].owner = d
                    THEN [owner |-> NoOwner, houses |-> 0, hotels |-> 0,
                          mortgaged |-> FALSE]
                    ELSE b.properties[loc]
             /\ \A q \in PlayerIds \ {d} : gs'.players[q] = b.players[q]
             /\ gs'.houses = b.houses
             /\ gs'.hotels = b.hotels ]_vars

\* a debtor with a house on a tile has gone bankrupt to the bank: the tile
\* is cleared and the bank is a house short
BankClearedHouseSeen ==
  /\ gs.bankruptcies # <<>>
  /\ LET e == gs.bankruptcies[Len(gs.bankruptcies)] IN
       /\ e.creditor = NoOwner
       /\ \E loc \in Ownable :
            /\ e.before.properties[loc].owner = e.player
            /\ e.before.properties[loc].houses > 0
            /\ gs.properties[loc].owner = NoOwner
            /\ gs.properties[loc].houses = 0
       /\ gs.houses < BankHouses

\* the rent of a railroad or colored tile as the rules state it
StatedRent(loc) ==
  LET prop == gs.properties[loc]
      held == Cardinality({r \in RailroadSet :
                             gs.properties[r].owner = prop.owner})
  IN IF loc \in RailroadSet
     THEN CASE held = 1 -> 25 [] held = 2 -> 50 [] held = 3 -> 100
            [] held = 4 -> 200
     ELSE IF prop.hotels > 0 THEN RentHotel(loc)
     ELSE IF prop.houses > 0 THEN HouseRentTier(loc, prop.houses)
     ELSE IF \A l \in ColorGroups[ColorOf(loc)] :
               gs.properties[l].owner = prop.owner
     THEN 2 * RentAmount(loc)
     ELSE RentAmount(loc)

\* the throw of this step has put the player on a railroad or colored tile
\* that is not mortgaged and belongs to another, solvent player
LandsOnRentedTile ==
  /\ pc = "calls" /\ pc' = "called" /\ last'.move # <<>>
  /\ last'.move[3] \in ColoredSet \cup RailroadSet
  /\ gs.properties[last'.move[3]].owner \in PlayerIds \ {Cur}
  /\ ~gs.players[gs.properties[last'.move[3]].owner].bankrupt
  /\ ~gs.properties[last'.move[3]].mortgaged

\* C12: a throw that lands the player on a non-mortgaged railroad or
\* colored tile of another solvent player raises one rent charge of 25, 50,
\* 100, 200 for 1..4 railroads of the owner, or of the hotel rent, else the
\* house-tier rent, else twice the base rent under a monopoly, else the base
\* rent; a payer who can afford it loses exactly that amount and the owner
\* gains it
RentAsStated ==
  [][ LandsOnRentedTile =>
        LET loc == last'.move[3]
            owner == gs.properties[loc].owner
            cash == gs.players[Cur].money + last'.move[4]
            rents == {i \in DOMAIN gs'.charges : gs'.charges[i].kind = "rent"}
        IN /\ Cardinality(rents) = 1
           /\ \A i \in rents :
                /\ gs'.charges[i].player = Cur
                /\ gs'.charges[i].payee = owner
                /\ gs'.charges[i].amount = StatedRent(loc)
           /\ cash >= StatedRent(loc) =>
                /\ gs'.players[Cur].money = cash - StatedRent(loc)
                /\ gs'.players[owner].money =
                     gs.players[owner].money + StatedRent(loc) ]_vars

\* rent has just been paid on a built tile, on a tile of an unbuilt
\* monopoly, or to the owner of a railroad
RentPaidSeen ==
  /\ pc = "called" /\ last.move # <<>>
  /\ \E i \in DOMAIN gs.charges :
       /\ gs.charges[i].kind = "rent"
       /\ gs.charges[i].amount <= gs.charges[i].cash
       /\ gs.charges[i].amount > RentAmount(last.move[3])
       /\ last.move[3] \in ColoredSet

\* the dice total that has moved the current player in this step: the throw
\* of roll_dice, or the doubles that released the player from jail
MovedBy ==
  IF pc = "calls" /\ last'.move # <<>> THEN last'.move[2]
  ELSE IF pc = "loop" /\ gs.players[Cur].inJail /\ ~gs'.players[Cur].inJail
          /\ gs'.players[Cur].position # gs.players[Cur].position
  THEN gs'.players[Cur].position - gs.players[Cur].position
  ELSE 0

\* C13: a player moved by a throw of roll_dice or by the doubles that
\* release them from jail onto a non-mortgaged utility of another player is
\* charged the total of that throw times 4 when the owner holds one utility
\* and times 10 when the owner holds both
UtilityRentFromThrow ==
  [][ LET loc == gs'.players[Cur].position
          owner == gs.properties[loc].owner
          factor == IF Cardinality({u \in UtilitySet :
                                      gs.properties[u].owner = owner}) = 1
                    THEN 4 ELSE 10
      IN (/\ MovedBy # 0
          /\ loc \in UtilitySet
          /\ owner \in PlayerIds \ {Cur}
          /\ ~gs.properties[loc].mortgaged)
         => \E i \in DOMAIN gs'.charges :
              /\ gs'.charges[i].kind = "rent"
              /\ gs'.charges[i].player = Cur
              /\ gs'.charges[i].amount = MovedBy * factor ]_vars

\* C14: a player who arrives, by a throw or by a card, on a mortgaged
\* property of another player is charged no rent of any kind, loses no
\* money and is not made bankrupt in that step
NoRentOnMortgaged ==
  [][ LET loc == gs'.players[Cur].position IN
      (/\ loc # gs.players[Cur].position
       /\ loc \in Ownable
       /\ gs.properties[loc].mortgaged
       /\ gs.properties[loc].owner \in PlayerIds \ {Cur})
      => /\ \A i \in DOMAIN gs'.charges : gs'.charges[i].kind \notin RentKinds
         /\ gs'.players[Cur].money >= gs.players[Cur].money
         /\ ~gs'.players[Cur].bankrupt ]_vars

\* the caller's tiles of the color group of loc carry a house or a hotel
GroupBuilt(loc) ==
  /\ loc \in ColoredSet
  /\ \E l \in ColorGroups[ColorOf(loc)] :
       /\ gs.properties[l].owner = Cur
       /\ gs.properties[l].houses + gs.properties[l].hotels > 0

\* floor(price / 2), and floor of 110% of it
MortgageValue(loc) == Cost(loc) \div 2

UnmortgageCost(loc) == (MortgageValue(loc) * 110) \div 100

\* C15: mortgage_property succeeds only on an unmortgaged property of the
\* caller whose color group, among the caller's properties, carries no
\* building, and then credits floor(price/2) and sets the flag;
\* unmortgage_property succeeds only on a mortgaged property of the caller
\* with money >= floor(floor(price/2) * 1.1), and then debits exactly that
\* and clears the flag; nothing else changes
MortgageAsStated ==
  [][ /\ (pc' = "called" /\ last'.fn = "mortgage_property" /\ last'.ok) =>
           LET loc == last'.loc IN
           /\ loc \in Ownable
           /\ gs.properties[loc].owner = Cur
           /\ ~gs.properties[loc].mortgaged
           /\ ~GroupBuilt(loc)
           /\ gs'.players =
                [gs.players EXCEPT ![Cur].money = @ + MortgageValue(loc)]
           /\ gs'.properties =
                [gs.properties EXCEPT ![loc].mortgaged = TRUE]
      /\ (pc' = "called" /\ last'.fn = "unmortgage_property" /\ last'.ok) =>
           LET loc == last'.loc IN
           /\ loc \in Ownable
           /\ gs.properties[loc].owner = Cur
           /\ gs.properties[loc].mortgaged
           /\ gs.players[Cur].money >= UnmortgageCost(loc)
           /\ gs'.players =
                [gs.players EXCEPT ![Cur].money = @ - UnmortgageCost(loc)]
           /\ gs'.properties =
                [gs.properties EXCEPT ![loc].mortgaged = FALSE] ]_vars

\* a property has been mortgaged and redeemed: the owner is out of pocket
\* by the interest
UnmortgageSeen ==
  /\ pc = "called" /\ last.fn = "unmortgage_property" /\ last.ok
  /\ ~gs.properties[last.loc].mortgaged
  /\ gs.properties[last.loc].owner = Cur

\* the highest house count among the caller's tiles of the group of loc
GroupMaxHouses(loc) ==
  CHOOSE n \in 0..4 :
    /\ \E l \in ColorGroups[ColorOf(loc)] :
         gs.properties[l].owner = Cur /\ gs.properties[l].houses = n
    /\ \A l \in ColorGroups[ColorOf(loc)] :
         gs.properties[l].owner = Cur => gs.properties[l].houses <= n

\* C16: sell_house credits half of what build_house charges for the
\* property (the charge of building the house again) and is accepted only
\* on a tile whose house count is the highest of the group; sell_hotel
\* credits half of what build_hotel charges for the property (the charge of
\* building the hotel again) and leaves it with no hotel and 4 houses
SellAtHalfOfBuildCost ==
  [][ /\ (pc' = "called" /\ last'.fn = "sell_house" /\ last'.ok) =>
           LET loc == last'.loc
               rebuilt == handleBuildHouse(gs', Cur, loc)
           IN /\ loc \in ColoredSet
              /\ gs.properties[loc].owner = Cur
              /\ gs.properties[loc].houses = GroupMaxHouses(loc)
              /\ gs'.properties[loc].houses = gs.properties[loc].houses - 1
              /\ rebuilt.ok =>
                   2 * (gs'.players[Cur].money - gs.players[Cur].money)
                     = gs'.players[Cur].money - rebuilt.g.players[Cur].money
      /\ (pc' = "called" /\ last'.fn = "sell_hotel" /\ last'.ok) =>
           LET loc == last'.loc
               rebuilt == handleBuildHotel(gs', Cur, loc)
           IN /\ loc \in ColoredSet
              /\ gs'.properties[loc].hotels = 0
              /\ gs'.properties[loc].houses = 4
              /\ rebuilt.ok =>
                   2 * (gs'.players[Cur].money - gs.players[Cur].money)
                     = gs'.players[Cur].money - rebuilt.g.players[Cur].money
         ]_vars

\* the conditions under which the current player may add a house on loc
MayBuildHouse(loc) ==
  /\ loc \in ColoredSet
  /\ \A l \in ColorGroups[ColorOf(loc)] : gs.properties[l].owner = Cur
  /\ gs.properties[loc].hotels = 0
  /\ gs.properties[loc].houses < 4
  /\ \A l \in ColorGroups[ColorOf(loc)] :
       gs.properties[loc].houses <= gs.properties[l].houses
  /\ gs.houses >= 1
  /\ gs.players[Cur].money >= ColoredAttrs(loc)[8]

\* C17: build_house succeeds if and only if the caller owns the property
\* and its whole color group, the property has no hotel and fewer than 4
\* houses, its house count is the lowest of the group, the bank has a house
\* and the caller can pay the house cost; on success the caller pays the
\* house cost, the property gains one house and the bank loses one
BuildHouseIff ==
  [][ (pc' = "called" /\ last'.fn = "build_house") =>
        LET loc == last'.loc IN
        /\ last'.ok <=> MayBuildHouse(loc)
        /\ last'.ok =>
             /\ gs'.players =
                  [gs.players EXCEPT ![Cur].money = @ - ColoredAttrs(loc)[8]]
             /\ gs'.properties =
                  [gs.properties EXCEPT ![loc].houses = @ + 1]
             /\ gs'.houses = gs.houses - 1
             /\ gs'.hotels = gs.hotels ]_vars

\* with houses at (1,1,0) on the light blue group and cash for another
\* house, a build on a tile that carries one has just been refused
UnevenBuildRefusedSeen ==
  /\ pc = "called" /\ last.fn = "build_house" /\ ~last.ok
  /\ last.loc \in ColorGroups.lightblue
  /\ \A l \in ColorGroups.lightblue : gs.properties[l].owner = Cur
  /\ gs.properties[last.loc].houses = 1
  /\ Cardinality({l \in ColorGroups.lightblue : gs.properties[l].houses = 1}) = 2
  /\ Cardinality({l \in ColorGroups.lightblue : gs.properties[l].houses = 0}) = 1
  /\ gs.players[Cur].money >= ColoredAttrs(last.loc)[8]

\* C18: buy_property(confirm = true) of a player on an ownable, unowned
\* tile succeeds if and only if the player's money is at least the price,
\* and then takes exactly the price and makes the player the owner; on any
\* other tile it fails and changes nothing
BuyIffAffordable ==
  [][ (pc' = "called" /\ last'.fn = "buy_property" /\ last'.confirm = "true") =>
        LET loc == gs.players[Cur].position IN
        IF loc \in Ownable /\ gs.properties[loc].owner = NoOwner
        THEN /\ last'.ok <=> gs.players[Cur].money >= Cost(loc)
             /\ last'.ok =>
                  /\ gs'.players[Cur].money = gs.players[Cur].money - Cost(loc)
                  /\ gs'.properties =
                       [gs.properties EXCEPT ![loc].owner = Cur]
                  /\ \A q \in PlayerIds \ {Cur} : gs'.players[q] = gs.players[q]
             /\ ~last'.ok => View(gs') = View(gs)
        ELSE ~last'.ok /\ View(gs') = View(gs) ]_vars

\* a player has just bought the tile they stand on for its price
BoughtSeen ==
  /\ pc = "called" /\ last.fn = "buy_property" /\ last.confirm = "true"
  /\ last.ok
  /\ gs.properties[gs.players[Cur].position].owner = Cur
  /\ gs.players[Cur].money < Cost(gs.players[Cur].position)

\* C19: when the landing player declines an unowned property, the auction
\* price is floor(80% of the list price); if some non-bankrupt player can
\* pay it, one such player becomes the owner, pays exactly that amount and
\* keeps money >= 0; if none can, the property stays unowned and nobody's
\* money changes
AuctionAsStated ==
  [][ (/\ pc' = "called" /\ last'.fn = "buy_property"
       /\ last'.confirm = "false"
       /\ gs.players[Cur].position \in Ownable
       /\ gs.properties[gs.players[Cur].position].owner = NoOwner) =>
        LET loc == gs.players[Cur].position
            bid == (Cost(loc) * 4) \div 5
            payers == {q \in PlayerIds : /\ ~gs.players[q].bankrupt
                                         /\ gs.players[q].money >= bid}
        IN IF payers # {}
           THEN \E w \in payers :
                  /\ gs'.properties[loc].owner = w
                  /\ gs'.players[w].money = gs.players[w].money - bid
                  /\ gs'.players[w].money >= 0
                  /\ \A q \in PlayerIds \ {w} :
                       gs'.players[q].money = gs.players[q].money
           ELSE /\ gs'.properties[loc].owner = NoOwner
                /\ \A q \in PlayerIds :
                     gs'.players[q].money = gs.players[q].money ]_vars

ArgumentCommands ==
  {"buy_property", "build_house", "build_hotel", "sell_house", "sell_hotel",
   "mortgage_property", "unmortgage_property", "get_property_info"}

\* C20: a command that takes an argument and arrives with arguments that
\* could not be parsed (so with empty arguments) leaves the players' money,
\* the ownership, the buildings, the mortgages and the bank inventory as
\* they were
UnparsedIsNoOp ==
  [][ (/\ pc' = "called" /\ last'.fn \in ArgumentCommands
       /\ IF last'.fn = "buy_property" THEN last'.confirm = "undefined"
                                       ELSE last'.loc = Undefined) =>
        /\ gs'.players = gs.players
        /\ gs'.properties = gs.properties
        /\ gs'.houses = gs.houses
        /\ gs'.hotels = gs.hotels ]_vars

\* C21: a command of the vocabulary offered to the decision provider is
\* always dispatched to an operation: its result is never the unknown-command
\* failure
VocabularyIsDispatched ==
  (pc = "called" /\ last.fn \in monopolyTools) => ~last.unknown

QueryCommands ==
  {"get_game_state", "get_property_info", "trade_property",
   "respond_to_trade", "auction_bid", "pass_auction"}

\* C22: get_game_state, get_property_info, trade_property, respond_to_trade,
\* auction_bid and pass_auction change nothing: the players, the properties,
\* the bank inventory, the decks, the turn and the outcome are after the
\* command what they were before it
QueriesChangeNothing ==
  [][ (pc' = "called" /\ last'.fn \in QueryCommands) =>
        /\ View(gs') = View(gs)
        /\ gs'.turn = gs.turn
        /\ gs'.gameOver = gs.gameOver
        /\ gs'.winner = gs.winner ]_vars

\* get_property_info has answered for a property that has an owner
QueryOfOwnedSeen ==
  /\ pc = "called" /\ last.fn = "get_property_info" /\ last.ok
  /\ gs.properties[last.loc].owner # NoOwner

\* the turn of the current player has just been closed
TurnClosed == pc \in {"loop", "hung"}

\* C23: within a turn the third response in a row without a command ends
\* the turn at once; a response with a command puts the count of
\* consecutive empty responses back to 0; and a response without a command
\* that is not the third in a row ends the turn only when the cap on
\* decisions is passed
ThreeEmptyResponsesEndTurn ==
  [][ pc = "await" =>
        /\ pc' = "calls" => emptyResponseCount' = 0
        /\ pc' # "calls" =>
             /\ emptyResponseCount' = emptyResponseCount + 1
             /\ emptyResponseCount' >= 3 => TurnClosed'
             /\ (emptyResponseCount' < 3 /\ TurnClosed') =>
                  turnInteractionCount' > MaxInteractions ]_vars

\* a turn has been closed by its third consecutive empty response, with
\* the cap on decisions not yet passed
ThirdEmptyResponseSeen ==
  /\ TurnClosed /\ emptyResponseCount = 3
  /\ turnInteractionCount <= MaxInteractions

\* C24: in no turn is the decision provider asked for more decisions than
\* the cap (MaxInteractions here, 20 in the engine)
DecisionsWithinCap == turnInteractionCount <= MaxInteractions

\* the k-th player after the current one, with wrap-around
Following(k) == ((Cur - 1 + k) % NumPlayers) + 1

\* this step closes the turn of the current player
TurnCloses ==
  /\ pc' \in {"loop", "hung"}
  /\ pc \in {"await", "called"} \/ gs'.turn # gs.turn

\* C25: with two players or more, the end of a turn moves the current-player
\* index, with wrap-around, to the nearest following player who is not
\* bankrupt; the advance terminates; and the player of a turn that starts is
\* not bankrupt
NextPlayerSkipsBankrupt ==
  [][ /\ TurnCloses =>
           /\ pc' = "loop"
           /\ \E k \in 1..NumPlayers :
                /\ gs'.currentPlayerIndex = Following(k)
                /\ ~gs'.players[Following(k)].bankrupt
                /\ \A j \in 1..(k - 1) : gs'.players[Following(j)].bankrupt
      /\ gs'.turn # gs.turn => ~gs.players[Cur].bankrupt ]_vars

\* three players: turn 4, the second turn of the first player, has ended
\* with the index moved past the bankrupt second player to the third
SkippedBankruptSeen ==
  /\ pc = "loop" /\ NumPlayers = 3 /\ gs.turn = 4 /\ ~gs.gameOver
  /\ ~gs.players[1].bankrupt /\ gs.players[2].bankrupt
  /\ Cur = 3

\* this step starts a turn of a player who is in jail
JailedTurnStarts == pc = "loop" /\ gs'.turn # gs.turn /\ gs.players[Cur].inJail

\* the jailed player released and moved by the total of the throw
ReleasedAndMoved(total) ==
  [Fresh EXCEPT !.rng = Tail(@),
                !.players[Cur].inJail = FALSE,
                !.players[Cur].jailTurns = 0,
                !.players[Cur].position = (@ + total) % BoardSize]

\* C26: a turn started in jail adds one to the jail-turn counter.  At 3 the
\* player pays 50 and is released, or goes bankrupt with less than 50, and
\* the turn ends with no decision asked for.  Below 3 the dice are thrown:
\* without doubles the player stays in jail and the turn ends with no
\* decision asked for; doubles release the player, move them by the total
\* and resolve the landing
JailTurnAsStated ==
  [][ JailedTurnStarts =>
        LET before == gs.players[Cur]
            after == gs'.players[Cur]
            count == before.jailTurns + 1
            total == Head(gs.rng)[1] + Head(gs.rng)[2]
        IN IF count >= 3
           THEN /\ before.money >= 50 =>
                     /\ after.money = before.money - 50
                     /\ ~after.inJail /\ ~after.bankrupt
                /\ before.money < 50 => after.bankrupt
                /\ pc' # "await"
           ELSE IF Head(gs.rng)[1] # Head(gs.rng)[2]
           THEN /\ after = [before EXCEPT !.jailTurns = count]
                /\ pc' # "await"
           ELSE /\ gs'.players =
                     handleLanding(ReleasedAndMoved(total), Cur,
                                   currentDiceRoll).players
                /\ gs'.properties =
                     handleLanding(ReleasedAndMoved(total), Cur,
                                   currentDiceRoll).properties ]_vars

FreeActions ==
  {"buy_property", "build_house", "build_hotel", "sell_house", "sell_hotel",
   "mortgage_property", "unmortgage_property"}

\* C27: the phases of a turn are ordered, jail resolution, roll, movement,
\* landing resolution, free actions: no buy, build, sell, mortgage or
\* unmortgage command takes effect in a turn before a throw of that turn has
\* moved the player and the landing has been resolved
FreeActionsAfterLanding ==
  (pc = "called" /\ last.fn \in FreeActions /\ last.ok) => landed

\* the players of g who are not bankrupt
Active(g) == {q \in PlayerIds : ~g.players[q].bankrupt}

\* C28: a turn that ends with exactly one player not bankrupt marks the
\* game over with that player as winner, and no turn is played after it;
\* whenever the game is over the winner is a player who is not bankrupt;
\* and once the game is over neither gameOver nor the winner changes
LastPlayerStandingWins ==
  [][ /\ (TurnCloses /\ Cardinality(Active(gs')) = 1) =>
           /\ gs'.gameOver
           /\ gs'.winner \in Active(gs')
      /\ gs.gameOver =>
           /\ gs'.gameOver /\ gs'.winner = gs.winner
           /\ gs'.turn = gs.turn
      /\ gs'.gameOver => gs'.winner \in Active(gs') ]_vars

\* the game has been won by the last player standing in the very turn that
\* reached the turn ceiling, and runBenchmark has left its loop
WonAtCeilingSeen ==
  /\ pc = "done" /\ gs.gameOver /\ gs.turn >= maxTurns
  /\ Cardinality(Active(gs)) = 1

\* net worth as stated: cash, plus for each owned property its list price,
\* its houses at the house cost and its hotels at five times the house cost,
\* less half the price (rounded down) when it is mortgaged
StatedNetWorth(q) ==
  gs.players[q].money
  + SumF([loc \in Ownable |->
            Cost(loc)
            + gs.properties[loc].houses * getHouseCost(loc)
            + gs.properties[loc].hotels * 5 * getHouseCost(loc)
            - (IF gs.properties[loc].mortgaged THEN Cost(loc) \div 2 ELSE 0)],
         {loc \in Ownable : gs.properties[loc].owner = q})

\* C29: at the turn ceiling the game is marked over and the winner is the
\* non-bankrupt player of the highest net worth, the earliest of the roster
\* among equals; a winner is declared whatever the net worths are
NetWorthDecidesAtCeiling ==
  [][ (pc = "loop" /\ pc' = "done" /\ gs.turn >= maxTurns) =>
        /\ gs'.gameOver
        /\ gs'.winner \in Active(gs)
        /\ \A q \in Active(gs) :
             /\ StatedNetWorth(q) <= StatedNetWorth(gs'.winner)
             /\ StatedNetWorth(q) = StatedNetWorth(gs'.winner)
                  => gs'.winner <= q ]_vars

\* deck with its first k cards moved, one after the other, to the back
RotateBy(deck, k) ==
  [i \in 1..Len(deck) |-> deck[((i + k - 1) % Len(deck)) + 1]]

CardsOf(deck) == {deck[i] : i \in 1..Len(deck)}

\* C30: either deck is a cyclic queue: every draw moves the front card to
\* the back, so a deck always holds the cards it was created with, is back
\* in its order of creation after as many draws as it has cards, and is
\* left as it is by the draws from the other deck
DecksAreCyclicQueues ==
  [][ /\ gs'.chanceCards =
           RotateBy(gs.chanceCards, gs'.draws.chance - gs.draws.chance)
      /\ gs'.communityChestCards =
           RotateBy(gs.communityChestCards, gs'.draws.chest - gs.draws.chest)
      /\ Len(gs'.chanceCards) = Len(gs.dealt.chance)
      /\ CardsOf(gs'.chanceCards) = CardsOf(gs.dealt.chance)
      /\ Len(gs'.communityChestCards) = Len(gs.dealt.chest)
      /\ CardsOf(gs'.communityChestCards) = CardsOf(gs.dealt.chest)
      /\ gs'.draws.chance % Len(gs.dealt.chance) = 0
           => gs'.chanceCards = gs.dealt.chance
      /\ gs'.draws.chest % Len(gs.dealt.chest) = 0
           => gs'.communityChestCards = gs.dealt.chest ]_vars

\* the chance deck has gone once round and is back in its order of
\* creation, with the community chest deck part of its way round
DeckBackInOrderSeen ==
  /\ gs.draws.chance = Len(gs.dealt.chance)
  /\ gs.chanceCards = gs.dealt.chance
  /\ gs.draws.chest \in 1..(Len(gs.dealt.chest) - 1)
  /\ gs.communityChestCards # gs.dealt.chest

\* C31: a decision request on which the provider has failed at every
\* attempt yields the single command end_turn, which ends the turn and
\* passes play on, and the forced end_turn leaves a record in the event log
ForcedEndTurnIsLogged ==
  [][ /\ (pc = "await" /\ last'.forced) => (pc' = "calls" /\ pending' = 1)
      /\ (pc = "calls" /\ last.forced) =>
           /\ last'.fn = "end_turn" /\ last'.ok /\ last'.forced
           /\ gs'.logs # <<>>
      /\ (pc = "called" /\ last.forced) => TurnClosed' ]_vars

\* C32: every record that a command pushes on the event log for a mutating
\* action (BUY_PROPERTY, BUILD_HOUSE, MORTGAGE_PROPERTY) carries as
\* state-before the state as it was just before the mutation and as
\* state-after the state as it is just after it
LogRecordsBracketMutation ==
  [][ (pc = "calls" /\ pc' = "called") =>
        \A i \in DOMAIN gs'.logs :
           /\ gs'.logs[i].gameStateBefore = Snapshot(gs)
           /\ gs'.logs[i].gameStateAfter = Snapshot(gs') ]_vars

\* what a bankruptcy must leave untouched afterwards
Estate(q) ==
  [money |-> gs.players[q].money, properties |-> gs.players[q].properties,
   jailFreeCards |-> gs.players[q].jailFreeCards,
   owned |-> {t \in Ownable : gs.properties[t].owner = q}]

\* C33: once the player of the turn is bankrupt no further command of the
\* turn is dispatched, commands left in the same response included, and no
\* further decision is asked for in that turn; and the money, the holdings
\* and the jail tokens of a bankrupt player are never changed again
BankruptcyStopsTheTurn ==
  [][ /\ gs.players[Cur].bankrupt => pc' \notin {"await", "calls", "called"}
      /\ \A q \in PlayerIds :
            gs.players[q].bankrupt => /\ gs'.players[q].bankrupt
                                      /\ Estate(q)' = Estate(q) ]_vars

\* the player of the turn has gone bankrupt on the first of two commands
BankruptWithCommandLeftSeen ==
  pc = "called" /\ pending = 2 /\ gs.players[Cur].bankrupt

\* the places of tile t in the property list of player q
PlacesInList(q, t) ==
  {i \in DOMAIN gs.players[q].properties : gs.players[q].properties[i] = t}

\* C34: a tile is in a player's property list exactly when the property
\* table names that player as its owner, and it is there at most once;
\* the list holds ownable tiles only
OwnershipConsistent ==
  \A q \in PlayerIds :
     /\ \A i \in DOMAIN gs.players[q].properties :
           gs.players[q].properties[i] \in Ownable
     /\ \A t \in Ownable :
           /\ (PlacesInList(q, t) # {}) <=> (gs.properties[t].owner = q)
           /\ Cardinality(PlacesInList(q, t)) <= 1

\* a creditor holds a tile taken over from a bankrupt player, next to a
\* tile of their own
TakenOverTileSeen ==
  \E i \in DOMAIN gs.bankruptcies :
     LET e == gs.bankruptcies[i]
     IN /\ e.creditor # NoOwner
        /\ \E t, u \in Ownable :
              /\ e.before.properties[t].owner = e.player
              /\ e.before.properties[u].owner = e.creditor
              /\ gs.properties[t].owner = e.creditor
              /\ gs.properties[u].owner = e.creditor

\* C35: a player who is in jail stands on the jail tile, and roll_dice
\* never moves a player who is in jail
JailedStandOnJailTile ==
  [][ /\ \A q \in PlayerIds :
            gs'.players[q].inJail => gs'.players[q].position = JailPosition
      /\ (pc = "calls" /\ last'.fn = "roll_dice" /\ gs.players[Cur].inJail) =>
            gs'.players[Cur].position = gs.players[Cur].position ]_vars

\* C36: the bank never holds fewer than 0 or more than 32 houses, nor fewer
\* than 0 or more than 12 hotels
BankInventoryInRange ==
  /\ 0 <= gs.houses /\ gs.houses <= BankHouses
  /\ 0 <= gs.hotels /\ gs.hotels <= BankHotels

\* C37: no tile is mortgaged while that tile or another tile of its color
\* group carries a house or a hotel
MortgageExcludesBuildings ==
  \A t \in ColoredSet :
     gs.properties[t].mortgaged =>
        \A u \in ColorGroups[ColorOf(t)] :
           gs.properties[u].houses = 0 /\ gs.properties[u].hotels = 0

\* the tiles, the bank's stock and the caller's cash after a build command
\* answered by the matching sell command, set against those before the pair
Restored(g, h) ==
  /\ h.properties = g.properties
  /\ h.houses = g.houses /\ h.hotels = g.hotels
  /\ h.players[Cur].money <= g.players[Cur].money

HotelPair(loc) == handleSellHotel(handleBuildHotel(gs, Cur, loc).g, Cur, loc)

HousePair(loc) == handleSellHouse(handleBuildHouse(gs, Cur, loc).g, Cur, loc)

\* C38: a successful build_hotel followed at once by sell_hotel for the same
\* tile, and a successful build_house followed at once by sell_house, put
\* the buildings and the bank's stock back as they were and leave the
\* player with no more money than before the pair
BuildThenSellNoProfit ==
  pc = "calls" =>
    \A loc \in locations :
       /\ handleBuildHotel(gs, Cur, loc).ok =>
             (HotelPair(loc).ok /\ Restored(gs, HotelPair(loc).g))
       /\ handleBuildHouse(gs, Cur, loc).ok =>
             (HousePair(loc).ok /\ Restored(gs, HousePair(loc).g))

\* a step that starts a turn
TurnStarts == pc = "loop" /\ pc' # "done"

\* C39: every game ends: the turn counter goes up by exactly 1 when a turn
\* starts and by nothing otherwise, it never passes the ceiling, no turn
\* holds more than a bounded number of decision requests, the main loop is
\* left as soon as the game is over or the ceiling is reached, and the
\* routine gets to its end
GameTerminates ==
  /\ [][ /\ gs'.turn = gs.turn + (IF TurnStarts THEN 1 ELSE 0)
         /\ gs'.turn <= maxTurns
         /\ turnInteractionCount' <= MaxInteractions + 1
         /\ (pc = "loop" /\ (gs.gameOver \/ gs.turn >= maxTurns)) => pc' = "done"
         /\ pc = "done" => pc' = "done" ]_vars
  /\ <>(pc = "done")

\* a game stopped by the ceiling after more than one turn, and no player
\* bankrupt
StoppedAtCeilingSeen ==
  /\ pc = "done" /\ gs.turn = maxTurns /\ maxTurns > 1
  /\ \A q \in PlayerIds : ~gs.players[q].bankrupt

\* the cash of all players together
TotalCash(g) == SumF([q \in PlayerIds |-> g.players[q].money], PlayerIds)

\* the cards of both decks
AllCards ==
  {chance[i] : i \in DOMAIN chance}
    \cup {communityChest[i] : i \in DOMAIN communityChest}

\* the tiles another player who is still in the game owns
TilesOfOthers ==
  {t \in Ownable : /\ gs.properties[t].owner \in PlayerIds \ {Cur}
                    /\ ~gs.players[gs.properties[t].owner].bankrupt}

\* a pay-every-player card the player of the turn cannot cover
Uncovered(attrs) ==
  /\ Has(attrs, "payToPlayers") /\ attrs.payToPlayers
  /\ gs.players[Cur].money
       < perPlayerOf(attrs) * Cardinality(otherPlayers(gs, Cur))

\* C40: a rent payment, the settlement of a rent-multiplier or
\* dice-multiplier card, a collect-from-every-player card, a
\* pay-every-player card that is covered, and a bankruptcy settled to
\* another player leave the sum of the players' cash as it was; a
\* pay-every-player card that is not covered gives no other player anything
TransfersConserveCash ==
  (pc = "calls" /\ ~gs.players[Cur].bankrupt) =>
    /\ \A t \in TilesOfOthers :
          /\ TotalCash(payRent(gs, Cur, t, currentDiceRoll)) = TotalCash(gs)
          /\ TotalCash(handleBankruptcy(gs, Cur, gs.properties[t].owner))
               = TotalCash(gs)
          /\ \A c \in AllCards :
                (Has(c.attrs, "moveToNearest") /\ gs.rng # <<>>) =>
                   TotalCash(cardSettle(gs, Cur, t, c.attrs)) = TotalCash(gs)
    /\ \A c \in AllCards :
          /\ TotalCash(cardCollectFromPlayers(gs, Cur, c.attrs)) = TotalCash(gs)
          /\ IF Uncovered(c.attrs)
             THEN \A q \in PlayerIds \ {Cur} :
                     cardPayToPlayers(gs, Cur, c.attrs).players[q].money
                       = gs.players[q].money
             ELSE TotalCash(cardPayToPlayers(gs, Cur, c.attrs)) = TotalCash(gs)

\* the roll just made has ended on another player's tile and the rent has
\* passed from hand to hand
CashPassedOnSeen ==
  /\ pc = "called" /\ last.fn = "roll_dice"
  /\ \E i \in DOMAIN gs.charges :
        /\ gs.charges[i].kind = "rent" /\ gs.charges[i].payee \in PlayerIds
        /\ gs.charges[i].amount > 0
        /\ gs.charges[i].cash >= gs.charges[i].amount

====
